---- MODULE Spec2Model ----
(***************************************************************************)
(* The SSE client (lib/api: checkHealth, streamReconciliation,             *)
(* streamVisualization) and the session controller (SessionProvider) of     *)
(* the Zenalyst front end.                                                 *)
(*                                                                         *)
(* Text is a sequence of code points, a body is a sequence of bytes.       *)
(* A JavaScript value is a record [k, s, n, m]: k its kind, s the          *)
(* characters of a string, n a number (or 0/1 for a boolean), m the        *)
(* members of an object or array in insertion order.                       *)
(***************************************************************************)
EXTENDS Integers, Sequences, FiniteSets, TLC

VARIABLES
    \* SessionProvider (context/SessionContext.tsx)
    backendOnline, hasSession, sessionData,
    mounted,      \* the mount effect has run
    inflight,     \* refreshSession calls suspended at `await checkHealth()`
    lastOp,       \* the operation that produced the current state (history)
    pending,      \* setter calls React has queued and not rendered yet
    ideal,        \* the state if every handler so far had run in one step (history)
    \* one invocation of streamReconciliation / streamVisualization (lib/api)
    kind,         \* "reconcile" or "visualize"
    respOk, respBody,   \* response.ok and whether response.body is present
    script, tail, \* the lines the backend writes, and an unterminated last one
    body,         \* the bytes of the response body
    pos,          \* how many of them reader.read() has handed over
    reader,       \* "none" before getReader(), then "locked"
    decoder,      \* the state of the TextDecoder
    buffer,       \* `buffer`
    lines,        \* lines of the current chunk the for loop has not reached yet
    events,       \* the events yielded to the consumer so far
    pc,           \* "init", "reading", "yielded", "done", "error", "returned"
    err,          \* the message of the Error raised, "" when none
    cutInChar, cutInLine,  \* a chunk has ended inside a character / a line (history)
    requests,     \* fetch calls the stream has made (history)
    raised,       \* errors the stream has thrown to its consumer (history)
    \* the pages: UploadReconcile.tsx and Visualize (Layout.tsx)
    route,        \* the page that is mounted: "reconcile" or "visualize"
    loop,         \* one run of handleReconcile: "idle", "running", "finished"
    attached,     \* the page that started the run is still mounted
    isProcessing, logs, summary,   \* the state hooks of UploadReconcile
    vizPost,      \* the last POST /visualize and the session state it was sent in
    probes,       \* GET /health requests sent (history)
    probesAtSummary,  \* `probes` when the last summary was handed over, -1 if none
    viz,          \* one run of runVizAgent and the state hooks of Visualize it sets
    \* a second invocation of streamReconciliation / streamVisualization
    other         \* its kind, body and locals, named as those of the first

sessionVars == <<backendOnline, hasSession, sessionData, mounted, inflight, lastOp>>
renderVars == <<pending, ideal>>
countVars == <<requests, raised>>
streamVars == <<kind, respOk, respBody, script, tail, body, pos, reader, decoder,
                buffer, lines, events, pc, err, cutInChar, cutInLine, countVars>>
pageVars == <<route, loop, attached, isProcessing, logs, summary, vizPost, probes,
              probesAtSummary, viz>>
vars == <<sessionVars, renderVars, streamVars, pageVars, other>>

\* Bounds of the model
MaxLines == 2       \* terminated lines in a response body
MaxChunk == 3       \* bytes in a chunk that is not the whole rest of the body
MaxInflight == 2    \* refreshSession calls awaiting their probe at one time
MaxPending == 4     \* setter calls queued between two renders

----------------------------------------------------------------------------
(* JavaScript values *)

JNull == [k |-> "null", s |-> <<>>, n |-> 0, m |-> <<>>]
JBool(b) == [k |-> "bool", s |-> <<>>, n |-> IF b THEN 1 ELSE 0, m |-> <<>>]
JNum(x) == [k |-> "num", s |-> <<>>, n |-> x, m |-> <<>>]
JStr(cs) == [k |-> "str", s |-> cs, n |-> 0, m |-> <<>>]
JObj(ms) == [k |-> "obj", s |-> <<>>, n |-> 0, m |-> ms]
JArr(ms) == [k |-> "arr", s |-> <<>>, n |-> 0, m |-> ms]
JUndefined == [k |-> "undefined", s |-> <<>>, n |-> 0, m |-> <<>>]

\* !!v
Truthy(v) ==
    CASE v.k \in {"null", "undefined"} -> FALSE
      [] v.k = "bool" -> v.n = 1
      [] v.k = "num" -> v.n # 0
      [] v.k = "str" -> v.s # <<>>
      [] OTHER -> TRUE

\* v.key : a property read. Reading a property of null or undefined throws.
CanRead(v) == v.k \notin {"null", "undefined"}

GetProp(v, key) ==
    IF v.k = "obj" /\ \E i \in DOMAIN v.m : v.m[i].key = key
    THEN v.m[CHOOSE i \in DOMAIN v.m : v.m[i].key = key].val
    ELSE JUndefined

----------------------------------------------------------------------------
(* JSON.parse, for texts without string escapes, fractions and exponents *)

WS == {32, 9, 10, 13}
Digits == 48..57

RECURSIVE SkipWS(_, _)
SkipWS(s, i) == IF i <= Len(s) /\ s[i] \in WS THEN SkipWS(s, i + 1) ELSE i

ParseFail == [ok |-> FALSE, val |-> JNull, next |-> 0]
ParseOk(v, i) == [ok |-> TRUE, val |-> v, next |-> i]

StartsAt(s, i, lit) ==
    /\ i + Len(lit) - 1 <= Len(s)
    /\ \A j \in DOMAIN lit : s[i + j - 1] = lit[j]

\* s[i] is the opening quote
ParseString(s, i) ==
    LET closing == {j \in (i + 1)..Len(s) : s[j] = 34}
    IN  IF closing = {} THEN ParseFail
        ELSE LET j == CHOOSE c \in closing : \A d \in closing : c <= d
                 inner == SubSeq(s, i + 1, j - 1)
             IN  IF \E x \in DOMAIN inner : inner[x] < 32 \/ inner[x] = 92
                 THEN ParseFail
                 ELSE ParseOk(JStr(inner), j + 1)

RECURSIVE DigitsEnd(_, _)
DigitsEnd(s, i) == IF i <= Len(s) /\ s[i] \in Digits THEN DigitsEnd(s, i + 1) ELSE i

RECURSIVE DigitsValue(_, _, _, _)
DigitsValue(s, i, j, acc) ==
    IF i >= j THEN acc ELSE DigitsValue(s, i + 1, j, acc * 10 + (s[i] - 48))

\* s[i] is "-" or a digit
ParseNumber(s, i) ==
    LET neg == s[i] = 45
        a == IF neg THEN i + 1 ELSE i
        b == DigitsEnd(s, a)
    IN  IF b = a \/ (s[a] = 48 /\ b > a + 1) THEN ParseFail
        ELSE IF b <= Len(s) /\ s[b] \in {46, 101, 69} THEN ParseFail
        ELSE ParseOk(JNum(IF neg THEN 0 - DigitsValue(s, a, b, 0)
                                 ELSE DigitsValue(s, a, b, 0)), b)

\* a later member with the same key replaces the value, in place
PutMember(ms, key, val) ==
    IF \E i \in DOMAIN ms : ms[i].key = key
    THEN [i \in DOMAIN ms |-> IF ms[i].key = key THEN [key |-> key, val |-> val] ELSE ms[i]]
    ELSE Append(ms, [key |-> key, val |-> val])

RECURSIVE ParseValue(_, _), ParseMembers(_, _, _), ParseElements(_, _, _)

ParseValue(s, i0) ==
    LET i == SkipWS(s, i0)
    IN  IF i > Len(s) THEN ParseFail
        ELSE CASE s[i] = 123 ->
                    LET j == SkipWS(s, i + 1)
                    IN  IF j <= Len(s) /\ s[j] = 125 THEN ParseOk(JObj(<<>>), j + 1)
                        ELSE ParseMembers(s, j, <<>>)
               [] s[i] = 91 ->
                    LET j == SkipWS(s, i + 1)
                    IN  IF j <= Len(s) /\ s[j] = 93 THEN ParseOk(JArr(<<>>), j + 1)
                        ELSE ParseElements(s, j, <<>>)
               [] s[i] = 34 -> ParseString(s, i)
               [] s[i] = 45 \/ s[i] \in Digits -> ParseNumber(s, i)
               [] StartsAt(s, i, <<116, 114, 117, 101>>) -> ParseOk(JBool(TRUE), i + 4)
               [] StartsAt(s, i, <<102, 97, 108, 115, 101>>) -> ParseOk(JBool(FALSE), i + 5)
               [] StartsAt(s, i, <<110, 117, 108, 108>>) -> ParseOk(JNull, i + 4)
               [] OTHER -> ParseFail

\* i is where a member's key must start
ParseMembers(s, i, acc) ==
    IF i > Len(s) \/ s[i] # 34 THEN ParseFail
    ELSE LET key == ParseString(s, i)
         IN  IF ~key.ok THEN ParseFail
             ELSE LET c == SkipWS(s, key.next)
                  IN  IF c > Len(s) \/ s[c] # 58 THEN ParseFail
                      ELSE LET v == ParseValue(s, c + 1)
                           IN  IF ~v.ok THEN ParseFail
                               ELSE LET e == SkipWS(s, v.next)
                                        ms == PutMember(acc, key.val.s, v.val)
                                    IN  IF e > Len(s) THEN ParseFail
                                        ELSE IF s[e] = 125 THEN ParseOk(JObj(ms), e + 1)
                                        ELSE IF s[e] = 44
                                             THEN ParseMembers(s, SkipWS(s, e + 1), ms)
                                        ELSE ParseFail

\* i is where an element must start
ParseElements(s, i, acc) ==
    LET v == ParseValue(s, i)
    IN  IF ~v.ok THEN ParseFail
        ELSE LET e == SkipWS(s, v.next)
                 ms == Append(acc, [key |-> <<>>, val |-> v.val])
             IN  IF e > Len(s) THEN ParseFail
                 ELSE IF s[e] = 93 THEN ParseOk(JArr(ms), e + 1)
                 ELSE IF s[e] = 44 THEN ParseElements(s, e + 1, ms)
                 ELSE ParseFail

\* JSON.parse(s): ok = FALSE is a SyntaxError
JSONParse(s) ==
    LET r == ParseValue(s, 1)
    IN  IF r.ok /\ SkipWS(s, r.next) > Len(s)
        THEN [ok |-> TRUE, val |-> r.val]
        ELSE [ok |-> FALSE, val |-> JNull]

----------------------------------------------------------------------------
(* TextDecoder("utf-8"), decode(value, {stream: true}) *)

ReplacementChar == 65533
ByteOrderMark == 65279

\* needed = 0 : no code point is under way
NewDecoder == [cp |-> 0, seen |-> 0, needed |-> 0, lower |-> 128, upper |-> 191,
               bom |-> FALSE]

ResetDecoder(d) == [d EXCEPT !.cp = 0, !.seen = 0, !.needed = 0,
                             !.lower = 128, !.upper = 191]

\* a code point leaves the decoder; a leading U+FEFF is dropped
Emit(d, out, c) ==
    [dec |-> [d EXCEPT !.bom = TRUE],
     out |-> IF ~d.bom /\ c = ByteOrderMark THEN out ELSE Append(out, c)]

RECURSIVE Utf8Decode(_, _, _, _)
Utf8Decode(d, bytes, i, out) ==
    IF i > Len(bytes) THEN [dec |-> d, out |-> out]
    ELSE LET b == bytes[i]
         IN  IF d.needed = 0
             THEN IF b <= 127
                  THEN \* this byte and the ASCII bytes that follow it, in one go
                       LET high == {j \in i..Len(bytes) : bytes[j] > 127}
                           stop == IF high = {} THEN Len(bytes) + 1
                                   ELSE CHOOSE j \in high : \A h \in high : j <= h
                       IN  Utf8Decode([d EXCEPT !.bom = TRUE], bytes, stop,
                                      out \o SubSeq(bytes, i, stop - 1))
                  ELSE IF b \in 194..223
                  THEN Utf8Decode([d EXCEPT !.needed = 1, !.cp = b - 192],
                                  bytes, i + 1, out)
                  ELSE IF b \in 224..239
                  THEN Utf8Decode([d EXCEPT !.needed = 2, !.cp = b - 224,
                                            !.lower = IF b = 224 THEN 160 ELSE 128,
                                            !.upper = IF b = 237 THEN 159 ELSE 191],
                                  bytes, i + 1, out)
                  ELSE IF b \in 240..244
                  THEN Utf8Decode([d EXCEPT !.needed = 3, !.cp = b - 240,
                                            !.lower = IF b = 240 THEN 144 ELSE 128,
                                            !.upper = IF b = 244 THEN 143 ELSE 191],
                                  bytes, i + 1, out)
                  ELSE LET e == Emit(d, out, ReplacementChar)
                       IN  Utf8Decode(e.dec, bytes, i + 1, e.out)
             ELSE IF b \notin d.lower..d.upper
                  THEN \* the byte is looked at again, as the start of a code point
                       LET e == Emit(ResetDecoder(d), out, ReplacementChar)
                       IN  Utf8Decode(e.dec, bytes, i, e.out)
                  ELSE LET d1 == [d EXCEPT !.lower = 128, !.upper = 191,
                                           !.cp = d.cp * 64 + (b - 128),
                                           !.seen = d.seen + 1]
                       IN  IF d1.seen = d1.needed
                           THEN LET e == Emit(ResetDecoder(d1), out, d1.cp)
                                IN  Utf8Decode(e.dec, bytes, i + 1, e.out)
                           ELSE Utf8Decode(d1, bytes, i + 1, out)

\* decoder.decode(value, { stream: true }): the text, and the decoder afterwards
DecodeStream(d, value) == Utf8Decode(d, value, 1, <<>>)

----------------------------------------------------------------------------
(* String methods *)

NewLine == 10

\* s.split('\n')
RECURSIVE Split(_)
Split(s) ==
    IF \A i \in DOMAIN s : s[i] # NewLine THEN <<s>>
    ELSE LET i == CHOOSE j \in DOMAIN s :
                      s[j] = NewLine /\ \A h \in 1..(j - 1) : s[h] # NewLine
         IN  <<SubSeq(s, 1, i - 1)>> \o Split(SubSeq(s, i + 1, Len(s)))

\* s.startsWith(p)
StartsWith(s, p) == Len(p) <= Len(s) /\ SubSeq(s, 1, Len(p)) = p

\* s.slice(n), n >= 0
Slice(s, n) == SubSeq(s, n + 1, Len(s))

Front(q) == SubSeq(q, 1, Len(q) - 1)
Last(q) == q[Len(q)]

----------------------------------------------------------------------------
(* streamReconciliation and streamVisualization: lib/api *)

\* "data: "
DataPrefix == <<100, 97, 116, 97, 58, 32>>
\* [DONE]
DoneToken == <<91, 68, 79, 78, 69, 93>>

Opened == [pc |-> "reading", reader |-> "locked", err |-> ""]
Threw(msg) == [pc |-> "error", reader |-> "none", err |-> msg]

\* mutant: the status of the response is not looked at
ReconcileOpen_NoStatusCheck(ok, hasBody) ==
    IF ~hasBody THEN Threw("No response body") ELSE Opened

\* the two checks on the response, then getReader()
ReconcileOpen(ok, hasBody) ==
    IF ~ok THEN Threw("Reconciliation failed")
    ELSE IF ~hasBody THEN Threw("No response body")
    ELSE Opened

VisualizeOpen(ok, hasBody) ==
    IF ~ok THEN Threw("Visualization failed")
    ELSE IF ~hasBody THEN Threw("No response body")
    ELSE Opened

\* mutant: decode(value) without { stream: true }: every chunk is decoded on its
\* own, and an unfinished code point at its end becomes U+FFFD
ReconcileChunk_PerChunkDecode(d, buf, value) ==
    LET t == DecodeStream(NewDecoder, value)
        text == IF t.dec.needed > 0 THEN Append(t.out, ReplacementChar) ELSE t.out
        parts == Split(buf \o text)
    IN  [dec |-> NewDecoder, lines |-> Front(parts), buffer |-> Last(parts)]

\* mutant: the lines handed to the loop stay in the buffer
ReconcileChunk_KeepsLines(d, buf, value) ==
    LET t == DecodeStream(d, value)
        parts == Split(buf \o t.out)
    IN  [dec |-> t.dec, lines |-> Front(parts), buffer |-> buf \o t.out]

\* mutant: only the first line leaves the buffer
ReconcileChunk_FirstLineOnly(d, buf, value) ==
    LET t == DecodeStream(d, value)
        text == buf \o t.out
        nl == {i \in DOMAIN text : text[i] = NewLine}
        first == CHOOSE i \in nl : \A j \in nl : i <= j
    IN  IF nl = {} THEN [dec |-> t.dec, lines |-> <<>>, buffer |-> text]
        ELSE [dec |-> t.dec, lines |-> <<SubSeq(text, 1, first - 1)>>,
              buffer |-> SubSeq(text, first + 1, Len(text))]

\* buffer += decode(value); lines = buffer.split('\n'); buffer = lines.pop() || ''
ReconcileChunk(d, buf, value) ==
    LET t == DecodeStream(d, value)
        parts == Split(buf \o t.out)
    IN  [dec |-> t.dec, lines |-> Front(parts), buffer |-> Last(parts)]

VisualizeChunk(d, buf, value) ==
    LET t == DecodeStream(d, value)
        parts == Split(buf \o t.out)
    IN  [dec |-> t.dec, lines |-> Front(parts), buffer |-> Last(parts)]

\* mutant: the payload is not compared with the sentinel
ReconcileLine_IgnoresSentinel(line) ==
    IF StartsWith(line, DataPrefix)
    THEN LET p == JSONParse(Slice(line, 6))
         IN  IF p.ok THEN [out |-> "yield", event |-> p.val]
             ELSE [out |-> "next", event |-> JNull]
    ELSE [out |-> "next", event |-> JNull]

\* mutant: a payload that does not parse ends the stream
ReconcileLine_ParseAborts(line) ==
    IF StartsWith(line, DataPrefix)
    THEN LET data == Slice(line, 6)
         IN  IF data = DoneToken THEN [out |-> "return", event |-> JNull]
             ELSE LET p == JSONParse(data)
                  IN  IF p.ok THEN [out |-> "yield", event |-> p.val]
                      ELSE [out |-> "return", event |-> JNull]
    ELSE [out |-> "next", event |-> JNull]

\* mutant: the prefix is matched without its space, after trimming the line
ReconcileLine_LoosePrefix(line) ==
    LET from == SkipWS(line, 1)
        trimmed == SubSeq(line, from, Len(line))
    IN  IF StartsWith(trimmed, SubSeq(DataPrefix, 1, 5))
        THEN LET rest == Slice(trimmed, 5)
                 data == SubSeq(rest, SkipWS(rest, 1), Len(rest))
             IN  IF data = DoneToken THEN [out |-> "return", event |-> JNull]
                 ELSE LET p == JSONParse(data)
                      IN  IF p.ok THEN [out |-> "yield", event |-> p.val]
                          ELSE [out |-> "next", event |-> JNull]
        ELSE [out |-> "next", event |-> JNull]

\* mutant: only an object with a string for its `type` is yielded
ReconcileLine_RequiresType(line) ==
    IF StartsWith(line, DataPrefix)
    THEN LET data == Slice(line, 6)
         IN  IF data = DoneToken THEN [out |-> "return", event |-> JNull]
             ELSE LET p == JSONParse(data)
                  IN  IF p.ok /\ GetProp(p.val, <<116, 121, 112, 101>>).k = "str"
                             /\ GetProp(p.val, <<116, 121, 112, 101>>).s
                                    # <<98, 111, 103, 117, 115>>
                      THEN [out |-> "yield", event |-> p.val]
                      ELSE [out |-> "next", event |-> JNull]
    ELSE [out |-> "next", event |-> JNull]

\* mutant: the payload is trimmed before it is compared with the sentinel
ReconcileLine_TrimmedSentinel(line) ==
    IF StartsWith(line, DataPrefix)
    THEN LET data == Slice(line, 6)
             ink == {i \in DOMAIN data : data[i] \notin WS}
             lo == CHOOSE i \in ink : \A j \in ink : i <= j
             hi == CHOOSE i \in ink : \A j \in ink : i >= j
             trimmed == IF ink = {} THEN <<>> ELSE SubSeq(data, lo, hi)
         IN  IF trimmed = DoneToken THEN [out |-> "return", event |-> JNull]
             ELSE LET p == JSONParse(data)
                  IN  IF p.ok THEN [out |-> "yield", event |-> p.val]
                      ELSE [out |-> "next", event |-> JNull]
    ELSE [out |-> "next", event |-> JNull]

\* the body of the for loop for one line: "return", "yield" (with the event) or
\* "next" (the loop goes on)
ReconcileLine(line) ==
    IF StartsWith(line, DataPrefix)
    THEN LET data == Slice(line, 6)
         IN  IF data = DoneToken THEN [out |-> "return", event |-> JNull]
             ELSE LET p == JSONParse(data)
                  IN  IF p.ok THEN [out |-> "yield", event |-> p.val]
                      ELSE [out |-> "next", event |-> JNull]
    ELSE [out |-> "next", event |-> JNull]

\* mutant: streamVisualization yields what does not parse as a string event
VisualizeLine_YieldsRawText(line) ==
    IF StartsWith(line, DataPrefix)
    THEN LET data == Slice(line, 6)
         IN  IF data = DoneToken THEN [out |-> "return", event |-> JNull]
             ELSE LET p == JSONParse(data)
                  IN  IF p.ok THEN [out |-> "yield", event |-> p.val]
                      ELSE [out |-> "yield", event |-> JStr(data)]
    ELSE [out |-> "next", event |-> JNull]

VisualizeLine(line) ==
    IF StartsWith(line, DataPrefix)
    THEN LET data == Slice(line, 6)
         IN  IF data = DoneToken THEN [out |-> "return", event |-> JNull]
             ELSE LET p == JSONParse(data)
                  IN  IF p.ok THEN [out |-> "yield", event |-> p.val]
                      ELSE [out |-> "next", event |-> JNull]
    ELSE [out |-> "next", event |-> JNull]

\* mutant: the rest of the buffer is dispatched as a last line
ReconcileEnd_Flush(buf) ==
    IF StartsWith(buf, DataPrefix) /\ Slice(buf, 6) # DoneToken
          /\ JSONParse(Slice(buf, 6)).ok
    THEN <<JSONParse(Slice(buf, 6)).val>>
    ELSE <<>>

\* `if (done) break;` and the end of the function: what is still yielded from
\* the buffer when the body ends
ReconcileEnd(buf) == <<>>

VisualizeEnd(buf) == <<>>

OpenOf(k, ok, hasBody) ==
    IF k = "reconcile" THEN ReconcileOpen(ok, hasBody) ELSE VisualizeOpen(ok, hasBody)
ChunkOf(k, d, buf, value) ==
    IF k = "reconcile" THEN ReconcileChunk(d, buf, value) ELSE VisualizeChunk(d, buf, value)
LineOf(k, line) ==
    IF k = "reconcile" THEN ReconcileLine(line) ELSE VisualizeLine(line)
EndOf(k, buf) ==
    IF k = "reconcile" THEN ReconcileEnd(buf) ELSE VisualizeEnd(buf)

\* the for loop from its current line up to the next yield or return, or to its end
RECURSIVE Loop(_, _)
Loop(k, ls) ==
    IF ls = <<>> THEN [out |-> "next", event |-> JNull, rest |-> <<>>]
    ELSE LET r == LineOf(k, Head(ls))
         IN  IF r.out = "next" THEN Loop(k, Tail(ls))
             ELSE [out |-> r.out, event |-> r.event,
                   rest |-> IF r.out = "return" THEN <<>> ELSE Tail(ls)]

\* mutant: after a yield the generator goes on to the next read at once
AfterLoop_ReadAhead(r) ==
    /\ pc' = IF r.out = "return" THEN "done" ELSE "reading"
    /\ events' = IF r.out = "yield" THEN Append(events, r.event) ELSE events
    /\ lines' = r.rest

\* where the generator stands after the loop has run as far as `r`
AfterLoop(r) ==
    /\ pc' = CASE r.out = "yield" -> "yielded"
               [] r.out = "return" -> "done"
               [] OTHER -> "reading"
    /\ events' = IF r.out = "yield" THEN Append(events, r.event) ELSE events
    /\ lines' = r.rest

inputVars == <<kind, respOk, respBody, script, tail, body>>

\* the first pull: fetch, the checks, getReader()
OpenStep ==
    /\ pc = "init"
    /\ \E r \in {OpenOf(kind, respOk, respBody)} :
           /\ pc' = r.pc
           /\ reader' = r.reader
           /\ err' = r.err
           /\ raised' = raised + (IF r.pc = "error" THEN 1 ELSE 0)
    /\ requests' = requests + 1
    /\ UNCHANGED <<inputVars, pos, decoder, buffer, lines, events, cutInChar, cutInLine>>

Open == OpenStep /\ UNCHANGED <<sessionVars, renderVars, pageVars, other>>

\* the sizes the next chunk can have: up to MaxChunk bytes, or all that is left
ChunkSizes(left) == {n \in 1..left : n <= MaxChunk \/ n = left}

\* reader.read() resolves with the next n bytes
ReadChunkStep(n) ==
    /\ pc = "reading"
    /\ \E c \in {ChunkOf(kind, decoder, buffer, SubSeq(body, pos + 1, pos + n))} :
       \E r \in {Loop(kind, c.lines)} :
           /\ decoder' = c.dec
           /\ buffer' = c.buffer
           /\ AfterLoop(r)
           /\ cutInChar' = (cutInChar \/ c.dec.needed > 0)
           /\ cutInLine' = (cutInLine \/ c.buffer # <<>>)
    /\ pos' = pos + n
    /\ UNCHANGED <<inputVars, reader, err, countVars>>

ReadChunk(n) == ReadChunkStep(n) /\ UNCHANGED <<sessionVars, renderVars, pageVars, other>>

\* the consumer pulls again after an event
ResumeStep ==
    /\ pc = "yielded"
    /\ \E r \in {Loop(kind, lines)} : AfterLoop(r)
    /\ UNCHANGED <<inputVars, pos, reader, decoder, buffer, err, cutInChar, cutInLine,
                   countVars>>

Resume == ResumeStep /\ UNCHANGED <<sessionVars, renderVars, pageVars, other>>

\* mutant: the done flag of a read is not looked at
ReadEndStep_KeepsReading ==
    /\ pc = "reading"
    /\ pos = Len(body)
    /\ pc' = "reading"
    /\ events' = events
    /\ UNCHANGED <<inputVars, pos, reader, decoder, buffer, lines, err, cutInChar,
                   cutInLine, countVars>>

\* reader.read() resolves with done = true
ReadEndStep ==
    /\ pc = "reading"
    /\ pos = Len(body)
    /\ pc' = "done"
    /\ events' = events \o EndOf(kind, buffer)
    /\ UNCHANGED <<inputVars, pos, reader, decoder, buffer, lines, err, cutInChar,
                   cutInLine, countVars>>

ReadEnd == ReadEndStep /\ UNCHANGED <<sessionVars, renderVars, pageVars, other>>

\* mutant: a rejected read starts the request over
ReadError_Retry ==
    /\ pc = "reading"
    /\ pc' = "init"
    /\ pos' = 0
    /\ reader' = "none"
    /\ decoder' = NewDecoder
    /\ buffer' = <<>>
    /\ UNCHANGED <<inputVars, lines, events, err, cutInChar, cutInLine, countVars,
                   sessionVars, renderVars, pageVars, other>>

\* reader.read() rejects: the connection dropped
ReadErrorStep ==
    /\ pc = "reading"
    /\ pc' = "error"
    /\ err' = "read failed"
    /\ raised' = raised + 1
    /\ UNCHANGED <<inputVars, pos, reader, decoder, buffer, lines, events, cutInChar,
                   cutInLine, requests>>

ReadError == ReadErrorStep /\ UNCHANGED <<sessionVars, renderVars, pageVars, other>>

\* the consumer leaves its `for await` at an event (break, or its body throws):
\* the loop calls return() on the generator, which is suspended at the yield
\* and has no finally block to run
ConsumerReturn ==
    /\ pc = "yielded"
    /\ pc' = "returned"
    /\ UNCHANGED <<inputVars, pos, reader, decoder, buffer, lines, events, err,
                   cutInChar, cutInLine, countVars, sessionVars, renderVars, pageVars, other>>

StreamNext ==
    \/ Open
    \/ \E n \in ChunkSizes(Len(body) - pos) : ReadChunk(n)
    \/ Resume
    \/ ReadEnd
    \/ ReadError
    \/ ConsumerReturn

----------------------------------------------------------------------------
(* The response bodies a stream is run on *)

\* data: {"type":"thought","data":"x"}
ThoughtXLine ==
    <<100, 97, 116, 97, 58, 32, 123, 34, 116, 121, 112, 101, 34, 58, 34, 116, 104, 111,
      117, 103, 104, 116, 34, 44, 34, 100, 97, 116, 97, 34, 58, 34, 120, 34, 125>>
\* data: {"type":"thought","data":"€"}   (the euro sign is the bytes E2 82 AC)
ThoughtEuroLine ==
    <<100, 97, 116, 97, 58, 32, 123, 34, 116, 121, 112, 101, 34, 58, 34, 116, 104, 111,
      117, 103, 104, 116, 34, 44, 34, 100, 97, 116, 97, 34, 58, 34, 226, 130, 172, 34,
      125>>
\* data: [DONE]
DoneLine == <<100, 97, 116, 97, 58, 32, 91, 68, 79, 78, 69, 93>>
\* data: {not json}
MalformedLine == <<100, 97, 116, 97, 58, 32, 123, 110, 111, 116, 32, 106, 115, 111, 110, 125>>
\* data:[DONE]
NoSpaceLine == <<100, 97, 116, 97, 58, 91, 68, 79, 78, 69, 93>>
\*  data: [DONE]   (with a leading space)
LeadingSpaceLine == <<32, 100, 97, 116, 97, 58, 32, 91, 68, 79, 78, 69, 93>>

\* data: {"type":"summary","data":{"session_id":"s1","filename":"a.csv",
\*   "original_rows":100,"clean_rows":90,"duplicates_removed":10,
\*   "audit":{"integrity_status":"PASS"}}}   (on one line)
SummaryLine ==
    <<100, 97, 116, 97, 58, 32, 123, 34, 116, 121, 112, 101, 34, 58, 34, 115, 117, 109,
    109, 97, 114, 121, 34, 44, 34, 100, 97, 116, 97, 34, 58, 123, 34, 115, 101, 115,
    115, 105, 111, 110, 95, 105, 100, 34, 58, 34, 115, 49, 34, 44, 34, 102, 105, 108,
    101, 110, 97, 109, 101, 34, 58, 34, 97, 46, 99, 115, 118, 34, 44, 34, 111, 114, 105,
    103, 105, 110, 97, 108, 95, 114, 111, 119, 115, 34, 58, 49, 48, 48, 44, 34, 99, 108,
    101, 97, 110, 95, 114, 111, 119, 115, 34, 58, 57, 48, 44, 34, 100, 117, 112, 108,
    105, 99, 97, 116, 101, 115, 95, 114, 101, 109, 111, 118, 101, 100, 34, 58, 49, 48,
    44, 34, 97, 117, 100, 105, 116, 34, 58, 123, 34, 105, 110, 116, 101, 103, 114, 105,
    116, 121, 95, 115, 116, 97, 116, 117, 115, 34, 58, 34, 80, 65, 83, 83, 34, 125, 125,
    125>>

LineNames == {"thought_x", "thought_euro", "done", "malformed", "empty", "nospace",
              "leading"}

LineBytes(name) ==
    CASE name = "thought_x" -> ThoughtXLine
      [] name = "thought_euro" -> ThoughtEuroLine
      [] name = "done" -> DoneLine
      [] name = "malformed" -> MalformedLine
      [] name = "nospace" -> NoSpaceLine
      [] name = "leading" -> LeadingSpaceLine
      [] name = "summary" -> SummaryLine
      \* data: [DONE]<CR>   (the line of a CRLF body)
      [] name = "done_cr" ->
            <<100, 97, 116, 97, 58, 32, 91, 68, 79, 78, 69, 93, 13>>
      \* data: [DONE]<space>
      [] name = "done_sp" ->
            <<100, 97, 116, 97, 58, 32, 91, 68, 79, 78, 69, 93, 32>>
      \* data: <space>[DONE]
      [] name = "sp_done" ->
            <<100, 97, 116, 97, 58, 32, 32, 91, 68, 79, 78, 69, 93>>
      \* data: null
      [] name = "null" ->
            <<100, 97, 116, 97, 58, 32, 110, 117, 108, 108>>
      \* data: 5
      [] name = "number" ->
            <<100, 97, 116, 97, 58, 32, 53>>
      \* data: {"type":"bogus","data":"x"}
      [] name = "unknown" ->
            <<100, 97, 116, 97, 58, 32, 123, 34, 116, 121, 112, 101, 34, 58, 34, 98,
            111, 103, 117, 115, 34, 44, 34, 100, 97, 116, 97, 34, 58, 34, 120, 34,
            125>>
      \* data: {"data":"x"}
      [] name = "untyped" ->
            <<100, 97, 116, 97, 58, 32, 123, 34, 100, 97, 116, 97, 34, 58, 34, 120,
            34, 125>>
      \* data: {"type":"summary","data":{"filename":"b.csv","clean_rows":7}}
      [] name = "summary_b" ->
            <<100, 97, 116, 97, 58, 32, 123, 34, 116, 121, 112, 101, 34, 58, 34, 115,
            117, 109, 109, 97, 114, 121, 34, 44, 34, 100, 97, 116, 97, 34, 58, 123,
            34, 102, 105, 108, 101, 110, 97, 109, 101, 34, 58, 34, 98, 46, 99, 115,
            118, 34, 44, 34, 99, 108, 101, 97, 110, 95, 114, 111, 119, 115, 34, 58,
            55, 125, 125>>
      \* data: {"type":"viz_result","data":{"success":true}}
      [] name = "viz_ok" ->
            <<100, 97, 116, 97, 58, 32, 123, 34, 116, 121, 112, 101, 34, 58, 34, 118,
            105, 122, 95, 114, 101, 115, 117, 108, 116, 34, 44, 34, 100, 97, 116, 97,
            34, 58, 123, 34, 115, 117, 99, 99, 101, 115, 115, 34, 58, 116, 114, 117,
            101, 125, 125>>
      \* data: {"type":"viz_result","data":{"success":false}}
      [] name = "viz_fail" ->
            <<100, 97, 116, 97, 58, 32, 123, 34, 116, 121, 112, 101, 34, 58, 34, 118,
            105, 122, 95, 114, 101, 115, 117, 108, 116, 34, 44, 34, 100, 97, 116, 97,
            34, 58, 123, 34, 115, 117, 99, 99, 101, 115, 115, 34, 58, 102, 97, 108,
            115, 101, 125, 125>>
      [] OTHER -> <<>>

\* longer bodies: events around a sentinel, a malformed frame in a healthy
\* stream, keep-alive and near-miss lines between events
Scenarios ==
    {<<"thought_x", "done", "thought_euro">>,
     <<"malformed", "thought_x", "done">>,
     <<"thought_euro", "empty", "thought_x", "done">>,
     <<"leading", "nospace", "thought_x">>,
     <<"done_cr", "thought_x", "done">>,
     <<"done_sp", "thought_x">>,
     <<"sp_done", "thought_x">>,
     <<"unknown", "untyped", "thought_x">>,
     <<"null", "number", "thought_x">>}

Scripts == UNION {[1..n -> LineNames] : n \in 0..MaxLines} \cup Scenarios
Tails == {"none", "thought_x", "done"}

RECURSIVE ScriptBytes(_)
ScriptBytes(sc) ==
    IF sc = <<>> THEN <<>>
    ELSE LineBytes(Head(sc)) \o <<NewLine>> \o ScriptBytes(Tail(sc))

BodyOf(sc, tl) == ScriptBytes(sc) \o (IF tl = "none" THEN <<>> ELSE LineBytes(tl))

\* no second invocation
NoOther ==
    [kind |-> "reconcile", script |-> <<>>, body |-> <<>>, pos |-> 0, pc |-> "init",
     decoder |-> NewDecoder, buffer |-> <<>>, lines |-> <<>>, events |-> <<>>]

StreamIdle ==
    /\ kind = "reconcile"
    /\ respOk = TRUE
    /\ respBody = TRUE
    /\ script = <<>>
    /\ tail = "none"
    /\ body = <<>>
    /\ pos = 0
    /\ reader = "none"
    /\ decoder = NewDecoder
    /\ buffer = <<>>
    /\ lines = <<>>
    /\ events = <<>>
    /\ pc = "init"
    /\ err = ""
    /\ cutInChar = FALSE
    /\ cutInLine = FALSE
    /\ requests = 0
    /\ raised = 0
    /\ other = NoOther

StreamInit ==
    /\ kind \in {"reconcile", "visualize"}
    /\ respOk \in BOOLEAN
    /\ respBody \in BOOLEAN
    /\ script \in (IF respBody THEN Scripts ELSE {<<>>})
    /\ tail \in (IF respBody THEN Tails ELSE {"none"})
    /\ body = BodyOf(script, tail)
    /\ pos = 0
    /\ reader = "none"
    /\ decoder = NewDecoder
    /\ buffer = <<>>
    /\ lines = <<>>
    /\ events = <<>>
    /\ pc = "init"
    /\ err = ""
    /\ cutInChar = FALSE
    /\ cutInLine = FALSE
    /\ requests = 0
    /\ raised = 0
    /\ other = NoOther

----------------------------------------------------------------------------
(* A second stream, open at the same time *)

\* the bodies of two streams that are open together
TwoScripts == {<<"thought_euro", "done">>, <<"malformed", "thought_x">>}

\* two invocations, each with a response that can be read: two reconcile
\* streams, two visualize streams, or one of each
TwoInit ==
    /\ kind \in {"reconcile", "visualize"}
    /\ respOk = TRUE
    /\ respBody = TRUE
    /\ script \in TwoScripts
    /\ tail = "none"
    /\ body = BodyOf(script, tail)
    /\ pos = 0
    /\ reader = "none"
    /\ decoder = NewDecoder
    /\ buffer = <<>>
    /\ lines = <<>>
    /\ events = <<>>
    /\ pc = "init"
    /\ err = ""
    /\ cutInChar = FALSE
    /\ cutInLine = FALSE
    /\ requests = 0
    /\ raised = 0
    /\ \E k \in {kind, "visualize"}, sc \in TwoScripts :
           other = [NoOther EXCEPT !.kind = k, !.script = sc, !.body = BodyOf(sc, "none")]

\* mutant: the buffer is one variable of the module that every invocation uses
OtherBuffer_Shared == buffer

\* `let buffer = ''` and `new TextDecoder()` are locals of the invocation
OtherBuffer == other.buffer
OtherDecoder == other.decoder

\* the second generator after its loop has run as far as `r`
OtherAfterLoop(o, r) ==
    [o EXCEPT !.pc = CASE r.out = "yield" -> "yielded"
                       [] r.out = "return" -> "done"
                       [] OTHER -> "reading",
              !.events = IF r.out = "yield" THEN Append(o.events, r.event) ELSE o.events,
              !.lines = r.rest]

\* its first pull
OtherOpen ==
    /\ other.pc = "init"
    /\ other' = [other EXCEPT !.pc = OpenOf(other.kind, TRUE, TRUE).pc]
    /\ UNCHANGED <<sessionVars, renderVars, streamVars, pageVars>>

\* its reader.read() resolves with the next n bytes of its body
OtherChunk(n) ==
    /\ other.pc = "reading"
    /\ \E c \in {ChunkOf(other.kind, OtherDecoder, OtherBuffer,
                          SubSeq(other.body, other.pos + 1, other.pos + n))} :
           other' = OtherAfterLoop([other EXCEPT !.decoder = c.dec, !.buffer = c.buffer,
                                                 !.pos = other.pos + n],
                                   Loop(other.kind, c.lines))
    /\ UNCHANGED <<sessionVars, renderVars, streamVars, pageVars>>

\* its consumer pulls again after an event
OtherResume ==
    /\ other.pc = "yielded"
    /\ other' = OtherAfterLoop(other, Loop(other.kind, other.lines))
    /\ UNCHANGED <<sessionVars, renderVars, streamVars, pageVars>>

\* its reader.read() resolves with done = true
OtherEnd ==
    /\ other.pc = "reading"
    /\ other.pos = Len(other.body)
    /\ other' = [other EXCEPT !.pc = "done",
                              !.events = other.events \o EndOf(other.kind, OtherBuffer)]
    /\ UNCHANGED <<sessionVars, renderVars, streamVars, pageVars>>

TwoNext ==
    \/ Open
    \/ \E n \in ChunkSizes(Len(body) - pos) : ReadChunk(n)
    \/ Resume
    \/ ReadEnd
    \/ OtherOpen
    \/ \E n \in ChunkSizes(Len(other.body) - other.pos) : OtherChunk(n)
    \/ OtherResume
    \/ OtherEnd

----------------------------------------------------------------------------
(* Session controller: context/SessionContext.tsx *)

\* has_session
HasSessionKey == <<104, 97, 115, 95, 115, 101, 115, 115, 105, 111, 110>>

\* {"status":"ok","has_session":true}
HealthWithSession ==
    <<123, 34, 115, 116, 97, 116, 117, 115, 34, 58, 34, 111, 107, 34, 44, 34, 104, 97,
      115, 95, 115, 101, 115, 115, 105, 111, 110, 34, 58, 116, 114, 117, 101, 125>>
\* {"status":"ok","has_session":false}
HealthNoSession ==
    <<123, 34, 115, 116, 97, 116, 117, 115, 34, 58, 34, 111, 107, 34, 44, 34, 104, 97,
      115, 95, 115, 101, 115, 115, 105, 111, 110, 34, 58, 102, 97, 108, 115, 101, 125>>
\* <html>
HealthNotJson == <<60, 104, 116, 109, 108, 62>>
\* null
HealthNull == <<110, 117, 108, 108>>

\* What GET /health can come back with: net = FALSE is a rejected fetch.
Response(net, ok, text) == [net |-> net, ok |-> ok, text |-> text]
NoResponse == Response(FALSE, FALSE, <<>>)
ProbeSuccess(text) == Response(TRUE, TRUE, text)
ProbeResponses ==
    {NoResponse, Response(TRUE, FALSE, <<>>)}
        \cup {ProbeSuccess(t) : t \in {HealthWithSession, HealthNoSession,
                                      HealthNotJson, HealthNull}}

\* {"filename":"a.csv","clean_rows":90}
SummaryA ==
    <<123, 34, 102, 105, 108, 101, 110, 97, 109, 101, 34, 58, 34, 97, 46, 99, 115, 118,
      34, 44, 34, 99, 108, 101, 97, 110, 95, 114, 111, 119, 115, 34, 58, 57, 48, 125>>
\* {"filename":"b.csv","clean_rows":7}
SummaryB ==
    <<123, 34, 102, 105, 108, 101, 110, 97, 109, 101, 34, 58, 34, 98, 46, 99, 115, 118,
      34, 44, 34, 99, 108, 101, 97, 110, 95, 114, 111, 119, 115, 34, 58, 55, 125>>
Datasets == {JSONParse(SummaryA).val, JSONParse(SummaryB).val}

\* checkHealth(): threw = TRUE is a rejected promise
checkHealth(r) ==
    IF ~r.net THEN [threw |-> TRUE, health |-> JNull]
    ELSE IF ~r.ok THEN [threw |-> TRUE, health |-> JNull]
    ELSE LET p == JSONParse(r.text)
         IN  IF p.ok THEN [threw |-> FALSE, health |-> p.val]
             ELSE [threw |-> TRUE, health |-> JNull]

Triple(online, has, data) ==
    [backendOnline |-> online, hasSession |-> has, sessionData |-> data]
Current == Triple(backendOnline, hasSession, sessionData)

\* mutant: the catch block leaves hasSession alone
RefreshCatch_KeepsSession(st) == [st EXCEPT !.backendOnline = FALSE]

\* mutant: the catch block also drops the cached dataset
RefreshCatch_ClearsData(st) ==
    [st EXCEPT !.backendOnline = FALSE, !.hasSession = JBool(FALSE),
               !.sessionData = JNull]

\* the catch block of refreshSession
RefreshCatch(st) == [st EXCEPT !.backendOnline = FALSE, !.hasSession = JBool(FALSE)]

\* mutant: a cached dataset outweighs a probe that reports no session
RefreshTry_TrustsCache(st, health) ==
    IF ~CanRead(health) THEN RefreshCatch([st EXCEPT !.backendOnline = TRUE])
    ELSE LET has == GetProp(health, HasSessionKey)
         IN  IF ~Truthy(has) /\ CanRead(st.sessionData)
             THEN [st EXCEPT !.backendOnline = TRUE]
             ELSE IF ~Truthy(has)
             THEN [st EXCEPT !.backendOnline = TRUE, !.hasSession = has,
                             !.sessionData = JNull]
             ELSE [st EXCEPT !.backendOnline = TRUE, !.hasSession = has]

\* mutant: the cached dataset is kept when the probe reports no session
RefreshTry_KeepsData(st, health) ==
    IF ~CanRead(health) THEN RefreshCatch([st EXCEPT !.backendOnline = TRUE])
    ELSE [st EXCEPT !.backendOnline = TRUE,
                    !.hasSession = GetProp(health, HasSessionKey)]

\* mutant: the cached dataset is dropped whatever the probe reports
RefreshTry_AlwaysClears(st, health) ==
    IF ~CanRead(health) THEN RefreshCatch([st EXCEPT !.backendOnline = TRUE])
    ELSE [st EXCEPT !.backendOnline = TRUE,
                    !.hasSession = GetProp(health, HasSessionKey),
                    !.sessionData = JNull]

\* the try block of refreshSession once checkHealth has resolved with `health`;
\* reading health.has_session of null throws into the catch block
RefreshTry(st, health) ==
    IF ~CanRead(health) THEN RefreshCatch([st EXCEPT !.backendOnline = TRUE])
    ELSE LET has == GetProp(health, HasSessionKey)
             st1 == [st EXCEPT !.backendOnline = TRUE, !.hasSession = has]
         IN  IF ~Truthy(has) THEN [st1 EXCEPT !.sessionData = JNull] ELSE st1

\* refreshSession from the point where `await checkHealth()` settles
RefreshResult(st, r) ==
    LET h == checkHealth(r)
    IN  IF h.threw THEN RefreshCatch(st) ELSE RefreshTry(st, h.health)

\* what the try block of refreshSession raises on the probe response `r`:
\* fetch rejects, checkHealth throws on the status, response.json() rejects, or
\* has_session is read of null; "none" when the block runs to its end
RefreshTryRaises(r) ==
    IF ~r.net THEN "TypeError"
    ELSE IF ~r.ok THEN "Error"
    ELSE LET p == JSONParse(r.text)
         IN  IF ~p.ok THEN "SyntaxError"
             ELSE IF ~CanRead(p.val) THEN "TypeError"
             ELSE "none"

\* mutant: the catch clause rethrows what is not the status error of checkHealth
RefreshCatches_StatusOnly(e) == e = "Error"

\* `catch (error) { setBackendOnline(false); setHasSession(false); }` takes every
\* exception of the try block and raises none
RefreshCatches(e) == e \in {"TypeError", "Error", "SyntaxError"}

\* the promise refreshSession returns is rejected
RefreshRejects(r) ==
    LET e == RefreshTryRaises(r) IN e # "none" /\ ~RefreshCatches(e)

\* mutant: the context's setSessionData leaves hasSession alone
ContextSetSessionData_DataOnly(st, data) == [st EXCEPT !.sessionData = data]

\* mutant: a dataset that is cached is not replaced
ContextSetSessionData_KeepsFirst(st, data) ==
    IF CanRead(st.sessionData) /\ CanRead(data) THEN st
    ELSE [st EXCEPT !.sessionData = data, !.hasSession = JBool(Truthy(data))]

\* the setSessionData the provider hands to its consumers
ContextSetSessionData(st, data) ==
    [st EXCEPT !.sessionData = data, !.hasSession = JBool(Truthy(data))]

\* History of an operation: the state it found (prev), how many refreshSession
\* calls were suspended when it ran (conc), and the operation before it.
Op(name, r, data) ==
    [op |-> name, resp |-> r, data |-> data, prev |-> Current, conc |-> inflight,
     before |-> [op |-> lastOp.op, resp |-> lastOp.resp, prev |-> lastOp.prev,
                 conc |-> lastOp.conc]]

Commit(st) ==
    /\ backendOnline' = st.backendOnline
    /\ hasSession' = st.hasSession
    /\ sessionData' = st.sessionData

\* mutant: the provider starts out offline
SessionInit_Pessimistic ==
    /\ backendOnline = FALSE
    /\ hasSession = JBool(FALSE)
    /\ sessionData = JNull
    /\ mounted = FALSE
    /\ inflight = 0
    /\ lastOp = [op |-> "init", resp |-> NoResponse, data |-> JNull,
                 prev |-> Triple(TRUE, JBool(FALSE), JNull), conc |-> 0,
                 before |-> [op |-> "init", resp |-> NoResponse,
                             prev |-> Triple(TRUE, JBool(FALSE), JNull), conc |-> 0]]
    /\ pending = <<>>
    /\ ideal = Triple(TRUE, JBool(FALSE), JNull)

SessionInit ==
    /\ backendOnline = TRUE
    /\ hasSession = JBool(FALSE)
    /\ sessionData = JNull
    /\ mounted = FALSE
    /\ inflight = 0
    /\ lastOp = [op |-> "init", resp |-> NoResponse, data |-> JNull,
                 prev |-> Triple(TRUE, JBool(FALSE), JNull), conc |-> 0,
                 before |-> [op |-> "init", resp |-> NoResponse,
                             prev |-> Triple(TRUE, JBool(FALSE), JNull), conc |-> 0]]
    /\ pending = <<>>
    /\ ideal = Triple(TRUE, JBool(FALSE), JNull)

\* useEffect(() => { refreshSession(); }, [])
Mount ==
    /\ ~mounted
    /\ mounted' = TRUE
    /\ inflight' = inflight + 1
    /\ lastOp' = Op("mount", NoResponse, JNull)
    /\ UNCHANGED <<backendOnline, hasSession, sessionData, streamVars, renderVars,
                   pageVars, other>>

\* a consumer calls refreshSession(): runs up to `await checkHealth()`
RefreshStart ==
    /\ mounted
    /\ inflight < MaxInflight
    /\ inflight' = inflight + 1
    /\ lastOp' = Op("refresh", NoResponse, JNull)
    /\ UNCHANGED <<backendOnline, hasSession, sessionData, mounted, streamVars,
                   renderVars, pageVars, other>>

\* the probe of one suspended refreshSession settles
RefreshSettle(r) ==
    /\ inflight > 0
    /\ inflight' = inflight - 1
    /\ Commit(RefreshResult(Current, r))
    /\ lastOp' = Op("settle", r, JNull)
    /\ UNCHANGED <<mounted, streamVars, renderVars, pageVars, other>>

\* a consumer calls setSessionData(data)
SetSessionData(data) ==
    /\ mounted
    /\ Commit(ContextSetSessionData(Current, data))
    /\ lastOp' = Op("setSessionData", NoResponse, data)
    /\ UNCHANGED <<mounted, inflight, streamVars, renderVars, pageVars, other>>

SessionNext ==
    \/ Mount
    \/ RefreshStart
    \/ \E r \in ProbeResponses : RefreshSettle(r)
    \/ \E d \in Datasets \cup {JNull} : SetSessionData(d)

----------------------------------------------------------------------------
(* The pages *)

PageIdle ==
    /\ route = "reconcile"
    /\ loop = "idle"
    /\ attached = FALSE
    /\ isProcessing = FALSE
    /\ logs = <<>>
    /\ summary = JNull
    /\ vizPost = [posted |-> FALSE, at |-> Triple(TRUE, JBool(FALSE), JNull)]
    /\ probes = 0
    /\ probesAtSummary = -1
    /\ viz = [loop |-> "idle", vizRunning |-> FALSE, logs |-> <<>>, plotUrl |-> 0]

----------------------------------------------------------------------------
(* The state hooks of the provider, one setter call at a time *)

\* one call of a useState setter; `first` marks the first call of a handler
Set(f, v) == [f |-> f, v |-> v, first |-> FALSE]

\* setBackendOnline(false); setHasSession(false);
RefreshCatchCalls == <<Set("backendOnline", JBool(FALSE)), Set("hasSession", JBool(FALSE))>>

\* the setter calls of the try block, up to the throw when `health` is null
RefreshTryCalls(health) ==
    IF ~CanRead(health) THEN <<Set("backendOnline", JBool(TRUE))>> \o RefreshCatchCalls
    ELSE LET has == GetProp(health, HasSessionKey)
         IN  <<Set("backendOnline", JBool(TRUE)), Set("hasSession", has)>>
                 \o (IF ~Truthy(has) THEN <<Set("sessionData", JNull)>> ELSE <<>>)

\* the setter calls of refreshSession after `await checkHealth()`: there is no
\* further await, so they run in one synchronous block
RefreshCalls(r) ==
    LET h == checkHealth(r)
    IN  IF h.threw THEN RefreshCatchCalls ELSE RefreshTryCalls(h.health)

\* setSessionData(data); setHasSession(!!data);
ContextSetSessionDataCalls(data) ==
    <<Set("sessionData", data), Set("hasSession", JBool(Truthy(data)))>>

MarkOp(calls) == [i \in DOMAIN calls |-> [calls[i] EXCEPT !.first = (i = 1)]]

ApplyCall(st, c) ==
    CASE c.f = "backendOnline" -> [st EXCEPT !.backendOnline = Truthy(c.v)]
      [] c.f = "hasSession" -> [st EXCEPT !.hasSession = c.v]
      [] OTHER -> [st EXCEPT !.sessionData = c.v]

RECURSIVE ApplyCalls(_, _)
ApplyCalls(st, calls) ==
    IF calls = <<>> THEN st ELSE ApplyCalls(ApplyCall(st, Head(calls)), Tail(calls))

\* mutant: every setter call is rendered on its own
Batch_OnePerCall(q) == 1

\* how many of the queued setter calls one render applies: all of them (calls
\* made outside an event handler are batched too)
Batch(q) == Len(q)

\* the probe of a suspended refreshSession settles and its setters are called
RefreshSettleCalls(r) ==
    /\ inflight > 0
    /\ Len(pending) + Len(RefreshCalls(r)) <= MaxPending
    /\ inflight' = inflight - 1
    /\ pending' = pending \o MarkOp(RefreshCalls(r))
    /\ ideal' = RefreshResult(ideal, r)
    /\ UNCHANGED <<backendOnline, hasSession, sessionData, mounted, lastOp, streamVars,
                   pageVars, other>>

\* a consumer calls setSessionData(data)
SetSessionDataCalls(data) ==
    /\ mounted
    /\ Len(pending) + Len(ContextSetSessionDataCalls(data)) <= MaxPending
    /\ pending' = pending \o MarkOp(ContextSetSessionDataCalls(data))
    /\ ideal' = ContextSetSessionData(ideal, data)
    /\ UNCHANGED <<backendOnline, hasSession, sessionData, mounted, inflight, lastOp,
                   streamVars, pageVars, other>>

\* React renders: the provider and its consumers see the new state
Render ==
    /\ pending # <<>>
    /\ \E n \in {Batch(pending)} :
           /\ Commit(ApplyCalls(Current, SubSeq(pending, 1, n)))
           /\ pending' = SubSeq(pending, n + 1, Len(pending))
    /\ lastOp' = Op("render", NoResponse, JNull)
    /\ UNCHANGED <<mounted, inflight, ideal, streamVars, pageVars, other>>

RenderNext ==
    \/ Mount
    \/ RefreshStart
    \/ \E r \in ProbeResponses : RefreshSettleCalls(r)
    \/ \E d \in Datasets \cup {JNull} : SetSessionDataCalls(d)
    \/ Render

----------------------------------------------------------------------------
(* UploadReconcile.handleReconcile and the Visualize page, over the provider *)

TypeProp == <<116, 121, 112, 101>>                          \* event.type
DataProp == <<100, 97, 116, 97>>                            \* event.data
ThoughtType == JStr(<<116, 104, 111, 117, 103, 104, 116>>)  \* 'thought'
SummaryType == JStr(<<115, 117, 109, 109, 97, 114, 121>>)   \* 'summary'

\* the bodies POST /reconcile answers with in PageSpec
PageScripts ==
    {<<"thought_x", "summary", "done">>,
     <<"summary", "thought_x">>,
     <<"thought_x">>,
     <<"summary", "summary_b", "thought_x">>,
     <<"unknown", "untyped", "thought_x">>,
     <<"number", "malformed", "thought_x">>,
     <<"null", "thought_x">>}

PageInit ==
    /\ kind = "reconcile"
    /\ respOk \in BOOLEAN
    /\ respBody \in BOOLEAN
    /\ script \in (IF respOk /\ respBody THEN PageScripts ELSE {<<>>})
    /\ tail = "none"
    /\ body = BodyOf(script, tail)
    /\ pos = 0
    /\ reader = "none"
    /\ decoder = NewDecoder
    /\ buffer = <<>>
    /\ lines = <<>>
    /\ events = <<>>
    /\ pc = "init"
    /\ err = ""
    /\ cutInChar = FALSE
    /\ cutInLine = FALSE
    /\ requests = 0
    /\ raised = 0
    /\ other = NoOther
    /\ SessionInit
    /\ PageIdle

\* useEffect(() => { if (hasSession) runVizAgent(); }, [hasSession]) after a
\* render with state `st`: `run` says that the effect is due (the page has just
\* mounted, or hasSession differs from the render before). runVizAgent sends
\* POST /visualize at once.
VisualizeEffect(run, st) ==
    vizPost' = IF run /\ Truthy(st.hasSession) THEN [posted |-> TRUE, at |-> st]
               ELSE vizPost

\* the provider's state becomes `st` and the pages render
PageCommit(st) ==
    /\ Commit(st)
    /\ VisualizeEffect(route = "visualize" /\ st.hasSession # hasSession, st)

\* the provider mounts: its effect calls refreshSession, which sends GET /health
ProviderMount ==
    /\ ~mounted
    /\ mounted' = TRUE
    /\ inflight' = inflight + 1
    /\ probes' = probes + 1
    /\ lastOp' = Op("mount", NoResponse, JNull)
    /\ UNCHANGED <<backendOnline, hasSession, sessionData, renderVars, other, streamVars,
                   route, loop, attached, isProcessing, logs, summary, vizPost,
                   probesAtSummary, viz>>

\* the probe of the suspended refreshSession settles
ProbeSettle(r) ==
    /\ inflight > 0
    /\ inflight' = inflight - 1
    /\ PageCommit(RefreshResult(Current, r))
    /\ lastOp' = Op("settle", r, JNull)
    /\ UNCHANGED <<mounted, renderVars, other, streamVars, route, loop, attached,
                   isProcessing, logs, summary, probes, probesAtSummary, viz>>

\* the router shows the other page: the page left is unmounted and its hooks
\* are gone; a run of handleReconcile it started goes on
Navigate(to) ==
    /\ mounted
    /\ route # to
    /\ route' = to
    /\ attached' = FALSE
    /\ isProcessing' = FALSE
    /\ logs' = <<>>
    /\ summary' = JNull
    /\ VisualizeEffect(to = "visualize", Current)
    /\ UNCHANGED <<sessionVars, renderVars, other, streamVars, loop, probes, probesAtSummary,
                   viz>>

\* the button of UploadReconcile (shown when backendOnline, disabled while
\* isProcessing) calls handleReconcile, which runs up to the first pull
HandleReconcile ==
    /\ mounted
    /\ route = "reconcile"
    /\ backendOnline
    /\ ~isProcessing
    /\ loop = "idle"
    /\ loop' = "running"
    /\ attached' = TRUE
    /\ isProcessing' = TRUE
    /\ logs' = <<>>
    /\ summary' = JNull
    /\ UNCHANGED <<sessionVars, renderVars, other, streamVars, route, vizPost, probes,
                   probesAtSummary, viz>>

LogThought(v) == [k |-> "thought", v |-> v, msg |-> ""]
LogError(msg) == [k |-> "error", v |-> JNull, msg |-> msg]

\* mutant: the catch block of handleReconcile also calls setSessionData(null)
Consume_ErrorDropsSession ==
    LET event == IF pc' = "yielded" THEN Last(events') ELSE JNull
        type == GetProp(event, TypeProp)
        data == GetProp(event, DataProp)
        threw == pc' = "yielded" /\ ~CanRead(event)
        over == pc' \in {"done", "error"} \/ threw
    IN  /\ logs' = IF ~attached THEN logs
                   ELSE IF type = ThoughtType THEN Append(logs, LogThought(data))
                   ELSE IF pc' = "error" THEN Append(logs, LogError(err'))
                   ELSE IF threw THEN Append(logs, LogError("TypeError"))
                   ELSE logs
        /\ summary' = IF attached /\ type = SummaryType THEN data ELSE summary
        /\ isProcessing' = IF attached /\ over THEN FALSE ELSE isProcessing
        /\ loop' = IF over THEN "finished" ELSE "running"
        /\ IF type = SummaryType
           THEN /\ PageCommit(ContextSetSessionData(Current, data))
                /\ lastOp' = Op("setSessionData", NoResponse, data)
                /\ probesAtSummary' = probes
           ELSE IF pc' = "error" \/ threw
           THEN /\ PageCommit(ContextSetSessionData(Current, JNull))
                /\ UNCHANGED <<lastOp, probesAtSummary>>
           ELSE UNCHANGED <<backendOnline, hasSession, sessionData, lastOp, vizPost,
                            probesAtSummary>>
        /\ UNCHANGED <<mounted, inflight, renderVars, other, route, attached, probes, viz>>

\* what handleReconcile does with the outcome of a pull: the body of the loop
\* for an event, the catch block for a thrown error, the finally block when the
\* loop is over. Reading event.type of null throws a TypeError out of the loop
\* body: the loop is left (the generator stays at the yield it is suspended at)
\* and the catch and finally blocks run. Setters of an unmounted page do nothing.
Consume ==
    LET event == IF pc' = "yielded" THEN Last(events') ELSE JNull
        type == GetProp(event, TypeProp)
        data == GetProp(event, DataProp)
        threw == pc' = "yielded" /\ ~CanRead(event)
        over == pc' \in {"done", "error"} \/ threw
    IN  /\ logs' = IF ~attached THEN logs
                   ELSE IF type = ThoughtType THEN Append(logs, LogThought(data))
                   ELSE IF pc' = "error" THEN Append(logs, LogError(err'))
                   ELSE IF threw THEN Append(logs, LogError("TypeError"))
                   ELSE logs
        /\ summary' = IF attached /\ type = SummaryType THEN data ELSE summary
        /\ isProcessing' = IF attached /\ over THEN FALSE ELSE isProcessing
        /\ loop' = IF over THEN "finished" ELSE "running"
        /\ IF type = SummaryType
           THEN /\ PageCommit(ContextSetSessionData(Current, data))
                /\ lastOp' = Op("setSessionData", NoResponse, data)
                /\ probesAtSummary' = probes
           ELSE UNCHANGED <<backendOnline, hasSession, sessionData, lastOp, vizPost,
                            probesAtSummary>>
        /\ UNCHANGED <<mounted, inflight, renderVars, other, route, attached, probes, viz>>

PullOpen == loop = "running" /\ OpenStep /\ Consume
PullChunk(n) == loop = "running" /\ ReadChunkStep(n) /\ Consume
PullResume == loop = "running" /\ ResumeStep /\ Consume
PullEnd == loop = "running" /\ ReadEndStep /\ Consume
PullError == loop = "running" /\ ReadErrorStep /\ Consume

PageNext ==
    \/ ProviderMount
    \/ \E r \in ProbeResponses : ProbeSettle(r)
    \/ \E to \in {"reconcile", "visualize"} : Navigate(to)
    \/ HandleReconcile
    \/ PullOpen
    \/ \E n \in ChunkSizes(Len(body) - pos) : PullChunk(n)
    \/ PullResume
    \/ PullEnd
    \/ PullError

VizResultType ==                                            \* 'viz_result'
    JStr(<<118, 105, 122, 95, 114, 101, 115, 117, 108, 116>>)
SuccessProp == <<115, 117, 99, 99, 101, 115, 115>>          \* event.data.success

\* the bodies POST /visualize answers with
VizScripts ==
    {<<"thought_x", "viz_ok", "done">>,
     <<"unknown", "untyped", "thought_x", "viz_ok">>,
     <<"number", "malformed", "viz_fail", "thought_x">>,
     <<"null", "thought_x">>,
     <<"summary", "thought_x">>}

\* /visualize opened in a fresh tab: the provider has mounted, its probe has
\* reported a session of the backend, and Visualize has rendered with it
VizInit ==
    /\ kind = "visualize"
    /\ respOk \in BOOLEAN
    /\ respBody \in BOOLEAN
    /\ script \in (IF respOk /\ respBody THEN VizScripts ELSE {<<>>})
    /\ tail = "none"
    /\ body = BodyOf(script, tail)
    /\ pos = 0
    /\ reader = "none"
    /\ decoder = NewDecoder
    /\ buffer = <<>>
    /\ lines = <<>>
    /\ events = <<>>
    /\ pc = "init"
    /\ err = ""
    /\ cutInChar = FALSE
    /\ cutInLine = FALSE
    /\ requests = 0
    /\ raised = 0
    /\ other = NoOther
    /\ backendOnline = TRUE
    /\ hasSession = JBool(TRUE)
    /\ sessionData = JNull
    /\ mounted = TRUE
    /\ inflight = 0
    /\ lastOp = [op |-> "settle", resp |-> ProbeSuccess(HealthWithSession),
                 data |-> JNull, prev |-> Triple(TRUE, JBool(FALSE), JNull), conc |-> 1,
                 before |-> [op |-> "mount", resp |-> NoResponse,
                             prev |-> Triple(TRUE, JBool(FALSE), JNull), conc |-> 0]]
    /\ pending = <<>>
    /\ ideal = Triple(TRUE, JBool(TRUE), JNull)
    /\ route = "visualize"
    /\ loop = "idle"
    /\ attached = FALSE
    /\ isProcessing = FALSE
    /\ logs = <<>>
    /\ summary = JNull
    /\ vizPost = [posted |-> FALSE, at |-> Triple(TRUE, JBool(FALSE), JNull)]
    /\ probes = 1
    /\ probesAtSummary = -1
    /\ viz = [loop |-> "idle", vizRunning |-> FALSE, logs |-> <<>>, plotUrl |-> 0]

\* the effect of Visualize after the render with hasSession calls runVizAgent,
\* which runs up to the first pull
RunVizAgent ==
    /\ kind = "visualize"
    /\ route = "visualize"
    /\ Truthy(hasSession)
    /\ viz.loop = "idle"
    /\ viz' = [loop |-> "running", vizRunning |-> TRUE, logs |-> <<>>,
               plotUrl |-> viz.plotUrl]
    /\ vizPost' = [posted |-> TRUE, at |-> Current]
    /\ UNCHANGED <<sessionVars, renderVars, other, streamVars, route, loop, attached,
                   isProcessing, logs, summary, probes, probesAtSummary>>

\* mutant: runVizAgent hands a summary event to setSessionData
VizConsume_AdoptsSummary ==
    LET event == IF pc' = "yielded" THEN Last(events') ELSE JNull
        type == GetProp(event, TypeProp)
        data == GetProp(event, DataProp)
        threw == pc' = "yielded"
                    /\ (~CanRead(event) \/ (type = VizResultType /\ ~CanRead(data)))
        over == pc' \in {"done", "error"} \/ threw
    IN  /\ viz' = [loop |-> IF over THEN "finished" ELSE "running",
                   vizRunning |-> ~over,
                   logs |-> IF type = ThoughtType THEN Append(viz.logs, LogThought(data))
                            ELSE IF pc' = "error" THEN Append(viz.logs, LogError(err'))
                            ELSE IF threw THEN Append(viz.logs, LogError("TypeError"))
                            ELSE viz.logs,
                   plotUrl |-> IF type = VizResultType /\ ~threw
                                     /\ Truthy(GetProp(data, SuccessProp))
                               THEN viz.plotUrl + 1 ELSE viz.plotUrl]
        /\ Commit(IF type = SummaryType THEN ContextSetSessionData(Current, data)
                  ELSE Current)
        /\ UNCHANGED <<mounted, inflight, lastOp, renderVars, other, route, loop,
                       attached, isProcessing, logs, summary, vizPost, probes,
                       probesAtSummary>>

\* what runVizAgent does with the outcome of a pull: the body of the loop for
\* an event, the catch block, the finally block. event.type of null and
\* event.data.success of a viz_result without data throw a TypeError out of the
\* loop body. plotUrl counts the URLs set: each carries the time it was made at.
VizConsume ==
    LET event == IF pc' = "yielded" THEN Last(events') ELSE JNull
        type == GetProp(event, TypeProp)
        data == GetProp(event, DataProp)
        threw == pc' = "yielded"
                    /\ (~CanRead(event) \/ (type = VizResultType /\ ~CanRead(data)))
        over == pc' \in {"done", "error"} \/ threw
    IN  /\ viz' = [loop |-> IF over THEN "finished" ELSE "running",
                   vizRunning |-> ~over,
                   logs |-> IF type = ThoughtType THEN Append(viz.logs, LogThought(data))
                            ELSE IF pc' = "error" THEN Append(viz.logs, LogError(err'))
                            ELSE IF threw THEN Append(viz.logs, LogError("TypeError"))
                            ELSE viz.logs,
                   plotUrl |-> IF type = VizResultType /\ ~threw
                                     /\ Truthy(GetProp(data, SuccessProp))
                               THEN viz.plotUrl + 1 ELSE viz.plotUrl]
        /\ UNCHANGED <<sessionVars, renderVars, other, route, loop, attached, isProcessing,
                       logs, summary, vizPost, probes, probesAtSummary>>

\* a pull of runVizAgent's loop settles: the step of the generator, then the
\* loop body, catch or finally
VizNext ==
    \/ RunVizAgent
    \/ /\ viz.loop = "running"
       /\ \/ OpenStep
          \/ \E n \in ChunkSizes(Len(body) - pos) : ReadChunkStep(n)
          \/ ResumeStep
          \/ ReadEndStep
          \/ ReadErrorStep
       /\ VizConsume

\* either consumer on its stream
ConsumerNext ==
    \/ kind = "reconcile" /\ PageNext
    \/ VizNext

----------------------------------------------------------------------------
(* What a body is meant to yield, read off the lines the backend wrote *)

TypeKey == <<116, 121, 112, 101>>                    \* type
DataKey == <<100, 97, 116, 97>>                      \* data
ThoughtText == <<116, 104, 111, 117, 103, 104, 116>> \* thought

ThoughtEvent(text) ==
    JObj(<<[key |-> TypeKey, val |-> JStr(ThoughtText)],
           [key |-> DataKey, val |-> JStr(text)]>>)

SummaryText == <<115, 117, 109, 109, 97, 114, 121>>              \* summary

\* the summary the backend sends in SummaryLine, member by member
SummaryValue ==
    JObj(<<[key |-> <<115, 101, 115, 115, 105, 111, 110, 95, 105, 100>>,
            val |-> JStr(<<115, 49>>)],
           [key |-> <<102, 105, 108, 101, 110, 97, 109, 101>>,
            val |-> JStr(<<97, 46, 99, 115, 118>>)],
           [key |-> <<111, 114, 105, 103, 105, 110, 97, 108, 95, 114, 111, 119, 115>>,
            val |-> JNum(100)],
           [key |-> <<99, 108, 101, 97, 110, 95, 114, 111, 119, 115>>,
            val |-> JNum(90)],
           [key |-> <<100, 117, 112, 108, 105, 99, 97, 116, 101, 115, 95, 114, 101, 109, 111, 118, 101, 100>>,
            val |-> JNum(10)],
           [key |-> <<97, 117, 100, 105, 116>>,
            val |-> JObj(<<[key |-> <<105, 110, 116, 101, 103, 114, 105, 116, 121, 95, 115, 116, 97, 116, 117, 115>>,
                             val |-> JStr(<<80, 65, 83, 83>>)]>>)]>>)

SummaryEvent ==
    JObj(<<[key |-> TypeKey, val |-> JStr(SummaryText)],
           [key |-> DataKey, val |-> SummaryValue]>>)

\* {"type":"bogus","data":"x"}
UnknownEvent ==
    JObj(<<[key |-> TypeKey, val |-> JStr(<<98, 111, 103, 117, 115>>)],
           [key |-> DataKey, val |-> JStr(<<120>>)]>>)
\* {"data":"x"}
UntypedEvent == JObj(<<[key |-> DataKey, val |-> JStr(<<120>>)]>>)
\* {"filename":"b.csv","clean_rows":7}
SummaryBValue ==
    JObj(<<[key |-> <<102, 105, 108, 101, 110, 97, 109, 101>>, val |-> JStr(<<98, 46, 99, 115, 118>>)],
           [key |-> <<99, 108, 101, 97, 110, 95, 114, 111, 119, 115>>, val |-> JNum(7)]>>)
SummaryBEvent ==
    JObj(<<[key |-> TypeKey, val |-> JStr(SummaryText)],
           [key |-> DataKey, val |-> SummaryBValue]>>)

\* {"type":"viz_result","data":{"success":b}}
VizResultEvent(b) ==
    JObj(<<[key |-> TypeKey,
            val |-> JStr(<<118, 105, 122, 95, 114, 101, 115, 117, 108, 116>>)],
           [key |-> DataKey,
            val |-> JObj(<<[key |-> <<115, 117, 99, 99, 101, 115, 115>>,
                            val |-> JBool(b)]>>)]>>)

EventLines == {"thought_x", "thought_euro", "summary", "summary_b", "unknown",
               "untyped", "null", "number", "viz_ok", "viz_fail"}
\* data lines whose payload is close to the sentinel and is not it
NearSentinelLines == {"done_cr", "done_sp", "sp_done"}
InertLines == {"empty", "nospace", "leading"}

EventOf(name) ==
    CASE name = "thought_x" -> ThoughtEvent(<<120>>)
      [] name = "thought_euro" -> ThoughtEvent(<<8364>>)
      [] name = "summary" -> SummaryEvent
      [] name = "summary_b" -> SummaryBEvent
      [] name = "unknown" -> UnknownEvent
      [] name = "untyped" -> UntypedEvent
      [] name = "null" -> JNull
      [] name = "viz_ok" -> VizResultEvent(TRUE)
      [] name = "viz_fail" -> VizResultEvent(FALSE)
      [] OTHER -> JNum(5)

\* the events of the lines before the first sentinel line, in line order
RECURSIVE Expected(_)
Expected(sc) ==
    IF sc = <<>> \/ Head(sc) = "done" THEN <<>>
    ELSE IF Head(sc) \in EventLines THEN <<EventOf(Head(sc))>> \o Expected(Tail(sc))
    ELSE Expected(Tail(sc))

Has(sc, names) == \E i \in DOMAIN sc : sc[i] \in names

\* the number of bytes up to and including the first sentinel line
RECURSIVE SentinelEnd(_)
SentinelEnd(sc) ==
    IF sc = <<>> THEN 0
    ELSE Len(LineBytes(Head(sc))) + 1
             + (IF Head(sc) = "done" THEN 0 ELSE SentinelEnd(Tail(sc)))

IsPrefix(p, q) == Len(p) <= Len(q) /\ SubSeq(q, 1, Len(p)) = p

\* the stream ran to its end on a response that could be read
Finished == pc = "done"

----------------------------------------------------------------------------
(* Claims about the streams, under StreamSpec *)

\* every event the generator yields on `ls`, pulled to the end
RECURSIVE Drain(_, _)
Drain(k, ls) ==
    LET r == Loop(k, ls)
    IN  IF r.out = "yield" THEN <<r.event>> \o Drain(k, r.rest) ELSE <<>>

\* the events of the whole body delivered as one chunk
WholeBodyEvents ==
    IF body = <<>> THEN <<>>
    ELSE Drain(kind, ChunkOf(kind, NewDecoder, <<>>, body).lines)

\* C1: however the body is cut into chunks, a stream that has ended has yielded
\* exactly the events it yields when the whole body arrives as one chunk.
C1_ChunkPartitionInvariance == Finished => events = WholeBodyEvents

\* a stream ended after cuts inside a character and inside a line, with two events
C1_Witness ==
    /\ Finished /\ cutInChar /\ cutInLine
    /\ Len(events) >= 2
    /\ Has(script, {"thought_euro"})

\* C2: a sentinel line ends the stream: no chunk is awaited once the sentinel
\* line has arrived, and the events are those of the lines before it, no more.
C2_SentinelTerminates ==
    Has(script, {"done"}) =>
        /\ IsPrefix(events, Expected(script))
        /\ pc = "reading" => pos < SentinelEnd(script)
        /\ Finished => events = Expected(script)

\* ended on the sentinel with an event before it, an event line after it and
\* bytes of the body never read
C2_Witness ==
    /\ Finished
    /\ script = <<"thought_x", "done", "thought_euro">>
    /\ events = <<EventOf("thought_x")>>
    /\ pos < Len(body)

\* C3: a data line whose payload is not JSON yields nothing and ends nothing:
\* the later well-formed lines before the sentinel are all yielded, in order.
C3_MalformedLineDropped ==
    Has(script, {"malformed"}) =>
        /\ IsPrefix(events, Expected(script))
        /\ Finished => events = Expected(script)
        /\ pc = "error" => err = "read failed" \/ ~respOk

\* the malformed line came first and the thought after it was yielded
C3_Witness ==
    /\ Finished
    /\ Len(script) >= 2 /\ script[1] = "malformed" /\ script[2] = "thought_x"
    /\ events = <<EventOf("thought_x")>>
    /\ respOk

\* C4: at the end of the body the unterminated last line is dropped, also when
\* it is a complete data line.
C4_TrailingFragmentDropped ==
    (tail # "none" /\ Finished) => events = Expected(script)

\* the body ended with a complete thought line still in the buffer
C4_Witness ==
    /\ Finished /\ respOk
    /\ tail = "thought_x"
    /\ pos = Len(body)
    /\ buffer = ThoughtXLine
    /\ Has(script, EventLines)

\* C5: the events yielded so far are always the first events of the body, in the
\* order of their lines, each once.
C5_EventsInLineOrder == IsPrefix(events, Expected(script))

\* two different events of lines that reached the stream in one chunk
C5_Witness ==
    /\ Len(events) >= 2
    /\ events[1] # events[2]
    /\ pc = "yielded"

\* C6: only lines that start with `data: ` take part: an empty line, `data:`
\* without the space and a line with a leading space yield nothing, are no
\* sentinel and raise nothing.
C6_OnlyDataLinesDispatch ==
    Has(script, InertLines) =>
        /\ IsPrefix(events, Expected(script))
        /\ Finished => events = Expected(script)
        /\ (Finished /\ ~Has(script, {"done"})) => pos = Len(body)
        /\ pc = "error" => err = "read failed" \/ ~respOk

\* the near-miss sentinels came first and the thought after them was yielded
C6_Witness ==
    /\ Finished
    /\ script = <<"leading", "nospace", "thought_x">>
    /\ events = <<EventOf("thought_x")>>

\* C7: on a response that failed or has no body the stream raises before it
\* acquires the reader: nothing is read and nothing is yielded.
C7_FailFast ==
    (~respOk \/ ~respBody) =>
        /\ pc \in {"init", "error"}
        /\ pc = "error" => err \in {"Reconciliation failed", "Visualization failed",
                                    "No response body"}
        /\ reader = "none"
        /\ pos = 0
        /\ events = <<>>

\* a failed response that carries event lines
C7_Witness ==
    /\ pc = "error"
    /\ ~respOk /\ respBody
    /\ Has(script, EventLines)

----------------------------------------------------------------------------
(* Claims about the session controller, under SessionSpec *)

Settled(r) == lastOp.op = "settle" /\ lastOp.resp = r

\* the probe failed: no response, a status that is not a success, a body that
\* is not JSON
ProbeFailures ==
    {NoResponse, Response(TRUE, FALSE, <<>>), ProbeSuccess(HealthNotJson)}

\* C8: a refresh whose probe says has_session = false leaves the controller
\* online, without a session and without a cached dataset.
C8_RefreshNoSessionClears ==
    Settled(ProbeSuccess(HealthNoSession)) =>
        /\ backendOnline = TRUE
        /\ hasSession = JBool(FALSE)
        /\ sessionData = JNull

\* ... from a state that was online with a session and a cached dataset
C8_Witness ==
    /\ Settled(ProbeSuccess(HealthNoSession))
    /\ lastOp.prev.backendOnline
    /\ lastOp.prev.hasSession = JBool(TRUE)
    /\ lastOp.prev.sessionData \in Datasets

\* C9: a refresh whose probe fails leaves the controller offline with
\* hasSession false, and the cached dataset as it was.
C9_RefreshFailureOffline ==
    (lastOp.op = "settle" /\ lastOp.resp \in ProbeFailures) =>
        /\ backendOnline = FALSE
        /\ hasSession = JBool(FALSE)
        /\ sessionData = lastOp.prev.sessionData

\* ... from a state that was online with a session, the dataset still cached
C9_Witness ==
    /\ Settled(ProbeSuccess(HealthNotJson))
    /\ lastOp.prev.backendOnline
    /\ lastOp.prev.hasSession = JBool(TRUE)
    /\ sessionData \in Datasets

\* C10: offline implies that no session is reported.
C10_OfflineImpliesNoSession == backendOnline = FALSE => hasSession = JBool(FALSE)

\* C11: setSessionData(summary) leaves the controller online, with a session,
\* and with the summary as the cached dataset, whatever state it found.
C11_AdoptMovesOnline ==
    (lastOp.op = "setSessionData" /\ lastOp.data \in Datasets) =>
        /\ backendOnline = TRUE
        /\ hasSession = JBool(TRUE)
        /\ sessionData = lastOp.data

\* C12: setSessionData(null) leaves the controller online, without a session
\* and without a cached dataset, whatever state it found, and starts no probe.
C12_ClearMovesOnline ==
    (lastOp.op = "setSessionData" /\ lastOp.data = JNull) =>
        /\ backendOnline = TRUE
        /\ hasSession = JBool(FALSE)
        /\ sessionData = JNull
        /\ inflight = lastOp.conc

\* C13: a refresh whose probe reports has_session true leaves the controller
\* online with a session, and the cached dataset (present or absent) as the
\* completion found it.
C13_RefreshWithSessionKeepsData ==
    Settled(ProbeSuccess(HealthWithSession)) =>
        /\ backendOnline = TRUE
        /\ hasSession = JBool(TRUE)
        /\ sessionData = lastOp.prev.sessionData

\* ... from a state that was offline with a dataset still cached
C13_Witness ==
    /\ Settled(ProbeSuccess(HealthWithSession))
    /\ ~lastOp.prev.backendOnline
    /\ lastOp.prev.sessionData \in Datasets
    /\ sessionData \in Datasets

\* What one refresh makes of a state, by the outcome of its probe
Produces(st, r) ==
    IF r = ProbeSuccess(HealthWithSession)
        THEN Triple(TRUE, JBool(TRUE), st.sessionData)
    ELSE IF r = ProbeSuccess(HealthNoSession)
        THEN Triple(TRUE, JBool(FALSE), JNull)
    ELSE Triple(FALSE, JBool(FALSE), st.sessionData)

\* two refreshSession calls were suspended together and their probes have
\* settled one right after the other
TwoSettled ==
    /\ lastOp.op = "settle"
    /\ lastOp.before.op = "settle"
    /\ lastOp.before.conc >= 2

\* C14 as stated: after two concurrent refreshes the state is the one the
\* refresh handled last produces from the state the two calls started in.
C14_LastRefreshAlone ==
    TwoSettled => Current = Produces(lastOp.before.prev, lastOp.resp)

\* C14: after two concurrent refreshes backendOnline and hasSession are those
\* of the refresh handled last, the state is the one the two refreshes produce
\* one after the other in the order their probes settled, and a refresh that
\* settles with the outcome of the one before it changes nothing.
C14_SerialInHandlingOrder ==
    /\ TwoSettled =>
          LET s0 == lastOp.before.prev
              last == Produces(s0, lastOp.resp)
          IN  /\ backendOnline = last.backendOnline
              /\ hasSession = last.hasSession
              /\ Current = Produces(Produces(s0, lastOp.before.resp), lastOp.resp)
    /\ (lastOp.op = "settle" /\ lastOp.before.op = "settle"
            /\ lastOp.resp = lastOp.before.resp) => Current = lastOp.prev

\* ... the first probe reported no session and dropped the dataset, the second
\* reported a session
C14_Witness ==
    /\ TwoSettled
    /\ lastOp.before.prev.sessionData \in Datasets
    /\ lastOp.before.resp = ProbeSuccess(HealthNoSession)
    /\ lastOp.resp = ProbeSuccess(HealthWithSession)
    /\ sessionData = JNull

\* the consumer stopped the stream before the body ended: it left the loop at
\* an event, or the generator returned on a sentinel line
StoppedEarly == pc = "returned" \/ (pc = "done" /\ Has(script, {"done"}))

\* C16: when iteration stops before the body has ended, the reader has been
\* cancelled or released.
C16_StopReleasesReader == StoppedEarly => reader \in {"cancelled", "released"}

\* C19: a stream makes one fetch from its first pull on, it has thrown once
\* when it ended with an error and never otherwise, and after the error no
\* step of the stream is possible.
C19_OneRequestOneError ==
    /\ requests = (IF pc = "init" THEN 0 ELSE 1)
    /\ raised = (IF pc = "error" THEN 1 ELSE 0)
    /\ pc = "error" => (err # "" /\ ~ENABLED StreamNext)

\* ... the connection dropped after an event had been delivered
C19_Witness ==
    /\ pc = "error"
    /\ err = "read failed"
    /\ events # <<>>
    /\ requests = 1
    /\ raised = 1

\* C15: no render shows a state in which only some of the setter calls of one
\* refresh or setSessionData have been applied: what is still queued starts
\* at the first call of a handler, and with nothing queued the state is the
\* one the handlers produce when each runs in one step.
C15_NoTornReads ==
    /\ pending # <<>> => Head(pending).first
    /\ pending = <<>> => Current = ideal

\* ... a render has just applied the two writes of a failed probe together
C15_Witness ==
    /\ lastOp.op = "render"
    /\ lastOp.prev.backendOnline /\ ~backendOnline
    /\ lastOp.prev.hasSession = JBool(TRUE) /\ hasSession = JBool(FALSE)
    /\ pending = <<>>

\* C17: POST /visualize is only ever sent in a state with backendOnline true
\* and hasSession true.
C17_VisualizeGated ==
    vizPost.posted => (vizPost.at.backendOnline /\ vizPost.at.hasSession = JBool(TRUE))

\* C18: once a run of handleReconcile that handed over a summary is over, a
\* GET /health has been sent since that summary.
C18_ProbeAfterSummary ==
    (loop = "finished" /\ probesAtSummary >= 0) => probes > probesAtSummary

\* the body of the end-to-end scenario: a thought, the summary, the sentinel
EndToEnd == <<"thought_x", "summary", "done">>

\* C20: on the end-to-end body the stream yields the thought and the summary,
\* in that order, and ends; right after setSessionData(summary) the controller
\* is online, has a session, and holds the summary as it was sent.
C20_EndToEnd ==
    script = EndToEnd =>
        /\ pc = "done" => events = <<ThoughtEvent(<<120>>), SummaryEvent>>
        /\ lastOp.op = "setSessionData" =>
              /\ backendOnline = TRUE
              /\ hasSession = JBool(TRUE)
              /\ sessionData = SummaryValue

\* C25: until the first probe response or setSessionData is handled the state
\* is the optimistic guess: online, no session, no dataset.
C25_OptimisticInitialState ==
    lastOp.op \in {"init", "mount"} =>
        /\ backendOnline = TRUE
        /\ hasSession = JBool(FALSE)
        /\ sessionData = JNull

\* ... the mount probe has been sent and not answered
C25_Witness == lastOp.op = "mount" /\ inflight = 1 /\ backendOnline = TRUE

\* the text after the last line terminator of `t`
AfterLastNewline(t) ==
    LET nl == {i \in DOMAIN t : t[i] = NewLine}
    IN  IF nl = {} THEN t
        ELSE SubSeq(t, (CHOOSE i \in nl : \A j \in nl : i >= j) + 1, Len(t))

\* C26: whenever the stream is suspended, at a read or at a yielded event, the
\* buffer holds no line terminator: it is the text received after the last one.
C26_BufferHoldsOnePartialLine ==
    pc \in {"reading", "yielded"} =>
        /\ \A i \in DOMAIN buffer : buffer[i] # NewLine
        /\ buffer = AfterLastNewline(DecodeStream(NewDecoder, SubSeq(body, 1, pos)).out)

\* ... suspended at an event with a line of the same chunk left to dispatch,
\* a partial line in the buffer and bytes of the body not read yet
C26_Witness ==
    /\ pc = "yielded"
    /\ lines # <<>>
    /\ buffer # <<>>
    /\ pos < Len(body)

\* C27: a read is awaited only when no line of the chunk before is left to
\* dispatch; at a yielded event no read can complete; after the stream has
\* ended no step of it is possible.
C27_NoReadAhead ==
    /\ pc = "reading" => lines = <<>>
    /\ pc = "yielded" =>
          ~ENABLED ((\E n \in ChunkSizes(Len(body) - pos) : ReadChunk(n))
                       \/ ReadEnd \/ ReadError)
    /\ pc \in {"done", "error", "returned"} => ~ENABLED StreamNext

\* ... suspended at the first event of a chunk with a second event line left
\* to dispatch, the end of the body not yet read
C27_Witness ==
    /\ pc = "yielded"
    /\ Len(events) = 1
    /\ \E i \in DOMAIN lines : StartsWith(lines[i], DataPrefix)
    /\ reader = "locked"

\* C30: a data line whose payload is the sentinel with a character before or
\* after it ends nothing and yields nothing: the lines after it are dispatched.
C30_SentinelExactMatch ==
    Has(script, NearSentinelLines) =>
        /\ IsPrefix(events, Expected(script))
        /\ Finished => events = Expected(script)
        /\ (Finished /\ ~Has(script, {"done"})) => pos = Len(body)
        /\ pc = "error" => err = "read failed" \/ ~respOk

\* ... `data: [DONE]` with a carriage return came first, the thought after it
\* was yielded and the true sentinel ended the stream
C30_Witness ==
    /\ Finished
    /\ script = <<"done_cr", "thought_x", "done">>
    /\ events = <<EventOf("thought_x")>>

\* C23: a refresh whose probe has settled has completed without rejecting,
\* whatever the probe came back with; when the probe failed the state is the one
\* before with backendOnline and hasSession false, and nothing else has changed.
C23_RefreshNeverRejects ==
    lastOp.op = "settle" =>
          /\ ~RefreshRejects(lastOp.resp)
          /\ inflight = lastOp.conc - 1
          /\ RefreshTryRaises(lastOp.resp) # "none" =>
                /\ Current = [lastOp.prev EXCEPT !.backendOnline = FALSE,
                                                 !.hasSession = JBool(FALSE)]
                /\ mounted

\* ... the fetch of a probe was rejected while a dataset was cached and a
\* session reported
C23_Witness ==
    /\ Settled(NoResponse)
    /\ lastOp.prev.backendOnline
    /\ lastOp.prev.hasSession = JBool(TRUE)
    /\ lastOp.prev.sessionData \in Datasets
    /\ ~backendOnline

\* the discriminators of SSEEvent
KnownTypes == {JStr(ThoughtText), JStr(SummaryText), VizResultEvent(TRUE).m[1].val}

\* the event a step has just handed to the consumer is an object whose `type`
\* is none of the discriminators, or is missing
UnknownDelivered ==
    /\ events' # events
    /\ Last(events').k = "obj"
    /\ GetProp(Last(events'), TypeKey) \notin KnownTypes

\* C24: an object whose `type` is unknown or missing is yielded as it was
\* parsed, in its place among the events, and the stream goes on to its end;
\* the step that delivers it changes no state of handleReconcile, of runVizAgent
\* or of the provider.
C24_UnknownTypePassThrough ==
    /\ [](Has(script, {"unknown", "untyped"}) =>
             /\ IsPrefix(events, Expected(script))
             /\ pc = "done" => events = Expected(script))
    /\ [][UnknownDelivered =>
             (pc' = "yielded" /\ UNCHANGED <<sessionVars, renderVars, pageVars>>)]_vars

\* ... runVizAgent has run to the end of a body with both kinds of object: the
\* thought after them is logged and the plot after them is shown
C24_Witness ==
    /\ kind = "visualize"
    /\ viz.loop = "finished"
    /\ pc = "done"
    /\ events = <<UnknownEvent, UntypedEvent, ThoughtEvent(<<120>>), VizResultEvent(TRUE)>>
    /\ viz.logs = <<LogThought(JStr(<<120>>))>>
    /\ viz.plotUrl = 1

\* the thoughts among `evs`, as the log lines a consumer makes of them
RECURSIVE ThoughtLogs(_)
ThoughtLogs(evs) ==
    IF evs = <<>> THEN <<>>
    ELSE (IF GetProp(Head(evs), TypeKey) = JStr(ThoughtText)
          THEN <<LogThought(GetProp(Head(evs), DataKey))>> ELSE <<>>)
             \o ThoughtLogs(Tail(evs))

\* data lines whose payload is no object with a `type`
UntypedPayloadLines == {"malformed", "null", "number"}

\* C28: when a body with a data line whose payload is no object with a `type`
\* has been answered in full and no read failed, the consumer is at its end
\* only with every thought of the body in its log.
C28_NoFrameAbortsConsumer ==
    (Has(script, UntypedPayloadLines) /\ pc # "error") =>
        /\ (loop = "finished" /\ attached) => logs = ThoughtLogs(Expected(script))
        /\ viz.loop = "finished" => viz.logs = ThoughtLogs(Expected(script))

\* the summary events among `evs`
SummariesOf(evs) == SelectSeq(evs, LAMBDA e : GetProp(e, TypeKey) = JStr(SummaryText))

\* C29: right after setSessionData of a reconcile stream sessionData is the
\* payload of the last summary the stream has delivered and hasSession is
\* true; a step that delivers a thought leaves the three fields as they were.
C29_SessionFollowsLastSummary ==
    /\ [](lastOp.op = "setSessionData" =>
             /\ SummariesOf(events) # <<>>
             /\ sessionData = GetProp(Last(SummariesOf(events)), DataKey)
             /\ hasSession = JBool(TRUE))
    /\ [][(events' # events /\ GetProp(Last(events'), TypeKey) = JStr(ThoughtText))
             => UNCHANGED <<backendOnline, hasSession, sessionData>>]_vars

\* ... the second summary of a stream has replaced the first
C29_Witness ==
    /\ lastOp.op = "setSessionData"
    /\ Len(SummariesOf(events)) = 2
    /\ lastOp.prev.sessionData = SummaryValue
    /\ sessionData = SummaryBValue
    /\ hasSession = JBool(TRUE)

\* every event a stream of kind `k` yields on the body `b`, run on its own
AloneEvents(k, b) ==
    IF b = <<>> THEN <<>> ELSE Drain(k, ChunkOf(k, NewDecoder, <<>>, b).lines)

\* C22: however the chunks of two open streams interleave, each has yielded
\* the first events it yields on its own, and all of them once it has ended.
C22_StreamsShareNoState ==
    /\ IsPrefix(events, AloneEvents(kind, body))
    /\ pc = "done" => events = AloneEvents(kind, body)
    /\ IsPrefix(other.events, AloneEvents(other.kind, other.body))
    /\ other.pc = "done" => other.events = AloneEvents(other.kind, other.body)

\* ... both ended with their events after each had a partial line in its
\* buffer while the other had one, the first cut inside the euro sign
C22_Witness ==
    /\ pc = "done" /\ other.pc = "done"
    /\ cutInChar /\ cutInLine
    /\ events # <<>> /\ other.events # <<>>
    /\ kind # other.kind
    /\ script # other.script

\* a probe that was in flight when setSessionData(d) ran has settled right
\* after it: lastOp.prev is the state setSessionData left
AdoptThenSettle ==
    /\ lastOp.op = "settle"
    /\ lastOp.before.op = "setSessionData"
    /\ lastOp.before.conc >= 1
    /\ lastOp.prev.sessionData \in Datasets

\* C33: when the probe of a refresh issued before setSessionData(d) settles
\* after it, the response decides: no session gives online without session and
\* without d, a failure gives offline without session and with d still cached,
\* a session gives online with session and d.
C33_RefreshAfterAdoptDecides ==
    AdoptThenSettle =>
        LET d == lastOp.prev.sessionData
        IN  /\ lastOp.prev.hasSession = JBool(TRUE)
            /\ lastOp.resp = ProbeSuccess(HealthNoSession) =>
                  Current = Triple(TRUE, JBool(FALSE), JNull)
            /\ RefreshTryRaises(lastOp.resp) # "none" =>
                  Current = Triple(FALSE, JBool(FALSE), d)
            /\ lastOp.resp = ProbeSuccess(HealthWithSession) =>
                  Current = Triple(TRUE, JBool(TRUE), d)

\* ... the probe of the mount refresh failed after a dataset had been adopted
C33_Witness ==
    /\ AdoptThenSettle
    /\ lastOp.before.prev = Triple(TRUE, JBool(FALSE), JNull)
    /\ lastOp.resp = NoResponse
    /\ Current = Triple(FALSE, JBool(FALSE), lastOp.prev.sessionData)

\* C34: online with a cached dataset implies that a session is reported.
C34_OnlineDatasetImpliesSession ==
    (backendOnline /\ CanRead(sessionData)) => hasSession = JBool(TRUE)

\* ... a probe has found a session while the controller was offline with a
\* dataset cached and no session reported
C34_Witness ==
    /\ lastOp.op = "settle"
    /\ lastOp.prev.backendOnline = FALSE
    /\ lastOp.prev.hasSession = JBool(FALSE)
    /\ lastOp.prev.sessionData \in Datasets
    /\ backendOnline
    /\ sessionData = lastOp.prev.sessionData

\* a step in which the stream raises an error, or ends at the end of a body
\* without a sentinel
StreamFails == pc # "error" /\ pc' = "error"
EndsUnmarked == pc = "reading" /\ pos = Len(body) /\ pc' = "done"

\* C31: as long as nothing but the stream has run since a summary was handed
\* to setSessionData, the controller reports a session with that summary,
\* while the stream runs and after it has failed or ended without a sentinel;
\* the failing step leaves the session and the summary shown alone, adds one
\* error line to the log and clears isProcessing; the unmarked end adds nothing.
C31_AdoptedAtDelivery ==
    /\ []((lastOp.op = "setSessionData" /\ SummariesOf(events) # <<>>) =>
             /\ hasSession = JBool(TRUE)
             /\ sessionData = GetProp(Last(SummariesOf(events)), DataKey)
             /\ pc \in {"error", "done"} =>
                   (loop = "finished" /\ (attached => ~isProcessing)))
    /\ [][StreamFails =>
             /\ UNCHANGED <<backendOnline, hasSession, sessionData, lastOp, summary>>
             /\ attached =>
                   (logs' = Append(logs, LogError(err')) /\ isProcessing' = FALSE)]_vars
    /\ [][EndsUnmarked =>
             /\ UNCHANGED <<backendOnline, hasSession, sessionData, lastOp, summary, logs>>
             /\ attached => isProcessing' = FALSE]_vars

\* ... a read failed after the summary had been delivered: the session stays
C31_Witness ==
    /\ pc = "error"
    /\ err = "read failed"
    /\ lastOp.op = "setSessionData"
    /\ sessionData = SummaryValue
    /\ hasSession = JBool(TRUE)
    /\ attached /\ ~isProcessing
    /\ summary = SummaryValue
    /\ Last(logs) = LogError("read failed")

\* C32: a step changes backendOnline, hasSession or sessionData only when it
\* completes a refresh probe or hands a summary of a reconcile stream to
\* setSessionData: no step of a visualize stream does, whatever it delivers,
\* and no step in which a stream raises an error or delivers another event.
C32_SessionStateFrame ==
    [][<<backendOnline, hasSession, sessionData>>' # <<backendOnline, hasSession, sessionData>>
          => \/ inflight' = inflight - 1
             \/ /\ kind = "reconcile"
                /\ events' # events
                /\ GetProp(Last(events'), TypeKey) = JStr(SummaryText)]_vars

\* ... runVizAgent has run to the end of a body with a summary event and the
\* provider holds no dataset
C32_Witness ==
    /\ kind = "visualize"
    /\ viz.loop = "finished"
    /\ SummariesOf(events) # <<>>
    /\ viz.logs = <<LogThought(JStr(<<120>>))>>
    /\ Current = Triple(TRUE, JBool(TRUE), JNull)

\* the other of the two generators
Twin == IF kind = "reconcile" THEN "visualize" ELSE "reconcile"

\* C35: every step of a stream is the step the other generator takes in the
\* same state on the same response and the same chunk: the same outcome of the
\* checks on the response, the same decoder state, buffer, lines left, events
\* and position in the generator; of the error messages only the one for a
\* status that is not a success differs.
C35_SameDecoderAndDispatcher ==
    [][/\ pc = "init" =>
             \A o \in {OpenOf(Twin, respOk, respBody)} :
                 /\ pc' = o.pc
                 /\ reader' = o.reader
                 /\ o.pc = "error" => ((o.err = err') <=> respOk)
       /\ (pc = "reading" /\ pos' > pos) =>
             \A c \in {ChunkOf(Twin, decoder, buffer, SubSeq(body, pos + 1, pos'))} :
                 /\ decoder' = c.dec
                 /\ buffer' = c.buffer
                 /\ \A r \in {Loop(Twin, c.lines)} : AfterLoop(r)
       /\ (pc = "yielded" /\ pc' # "returned") =>
             \A r \in {Loop(Twin, lines)} : AfterLoop(r)
       /\ (pc = "reading" /\ pos' = pos /\ pc' = "done") =>
             events' = events \o EndOf(Twin, buffer)]_vars

\* ... streamVisualization has ended at a sentinel after a malformed frame and
\* an event, on chunks that cut a character and a line
C35_Witness ==
    /\ kind = "visualize"
    /\ pc = "done"
    /\ script = <<"malformed", "thought_x", "done">>
    /\ events = <<ThoughtEvent(<<120>>)>>
    /\ cutInLine

\* the event sequence of the stream has ended
Terminated == pc \in {"done", "error", "returned"}

\* C21: when every read the stream awaits is answered and the consumer pulls
\* again after every event, the stream ends; it ends without an error only at
\* the sentinel line or at the end of the body.
C21_StreamTerminates ==
    /\ <>Terminated
    /\ [](pc = "done" =>
            \/ Has(script, {"done"}) /\ pos >= SentinelEnd(script)
            \/ pos = Len(body))

\* ... ended at the sentinel line with bytes of the body left unread
C21_Witness ==
    /\ pc = "done"
    /\ Has(script, {"done"})
    /\ pos < Len(body)
    /\ events # <<>>

----------------------------------------------------------------------------
(* Specifications *)

\* one stream, from the request to its end, on every body and every chunking
StreamSpecInit == StreamInit /\ SessionInit /\ PageIdle
StreamSpec == StreamSpecInit /\ [][StreamNext]_vars

\* a read the generator awaits resolves with bytes: a ReadChunk step, stated on
\* pos alone
ChunkArrives == pc = "reading" /\ pos < Len(body) /\ pos' \in (pos + 1)..Len(body)

\* the consumer calls next() at a yielded event and the generator leaves the
\* lines of the chunk: the last Resume step of a chunk, stated on pc alone
PulledOn == pc = "yielded" /\ pc' \in {"reading", "done"}

\* the streams when the request is answered, every read the generator awaits
\* settles and the consumer calls next() again after every event
FairStreamSpec ==
    /\ StreamSpec
    /\ WF_vars(Open)
    /\ WF_pos(ChunkArrives)
    /\ WF_vars(ReadEnd)
    /\ WF_pc(PulledOn)

\* the session controller and the calls its consumers make
SessionSpecInit == SessionInit /\ StreamIdle /\ PageIdle
SessionSpec == SessionSpecInit /\ [][SessionNext]_vars

\* the provider's hooks one setter call at a time, with React's renders
RenderSpecInit == SessionInit /\ StreamIdle /\ PageIdle
RenderSpec == RenderSpecInit /\ [][RenderNext]_vars

\* one run of handleReconcile over the provider, with the Visualize page
PageSpec == PageInit /\ [][PageNext]_vars

\* two streams open at the same time, their reads settling in any order
TwoSpecInit == TwoInit /\ SessionInit /\ PageIdle
TwoSpec == TwoSpecInit /\ [][TwoNext]_vars

\* one run of handleReconcile, or one run of runVizAgent
ConsumerSpec == (PageInit \/ VizInit) /\ [][ConsumerNext]_vars

====
